---- MODULE Spec2Model ----
(***************************************************************************)
(* Model of the tweets-to-character pipeline of the characterfile          *)
(* repository (src/scripts/folder2knowledge.js, lines 178-776): the retry  *)
(* wrapper, the validity predicate, the per-chunk extraction with its      *)
(* cache, the concurrency limiter and the session cursor kept by main.     *)
(*                                                                         *)
(* Every asynchronous function is modelled by the steps between its        *)
(* awaits.  A promise that settles and the continuation that awaits it are *)
(* two steps, so that other continuations may run in between, as on the    *)
(* JavaScript event loop.                                                  *)
(***************************************************************************)
EXTENDS Integers, Sequences, FiniteSets, TLC

\* ------------------------------------------------------------------ bounds
\* Largest number of tasks (chunks) of a run.
MaxTasks == 4
\* Largest concurrency ceiling tried by the limiter harness.
MaxLimit == 3
\* Most failed requests and invalid answers of the backend in main's runs.
MaxFaults == 3
\* Most starts of the process for one archive.
MaxRuns == 2

\* Most posts of a collection given to buildConversationThread.
MaxPosts == 3
\* Post identifiers are 1 .. MaxIds.
MaxIds == 3
\* Timestamps are 1 .. MaxStamp.
MaxStamp == 3

\* Most posts of the collection given to chunkText.
MaxThreads == 3
\* Most direct messages given to chunkText.
MaxMessages == 501
\* Most per-chunk results given to combineAndDeduplicate.
MaxResults == 2
\* Most rate-limit pauses of runChatCompletion followed in one extraction.
MaxPauses == 3
\* Most entries of the starting folder, and most files of a folder in it.
MaxEntries == 3
MaxSubFiles == 2

\* ------------------------------------------------------- program constants
\* const MAX_RETRIES = parseInt(process.env.MAX_RETRIES) || 5
MAX_RETRIES == 5
\* const RETRY_DELAY = parseInt(process.env.RETRY_DELAY) || 3000
RETRY_DELAY == 3000

TaskIds == 0 .. (MaxTasks - 1)

\* ------------------------------------------------------------ JSON values
\* A JavaScript value as far as validateJson and the truthiness tests read
\* it: its type, the keys it has when it is an object, whether its style
\* member is itself an object, and the keys of that member.  src is the index
\* of the chunk whose prompt produced the value (-1 for none).
requiredKeys == {"bio", "lore", "adjectives", "topics", "style", "messageExamples", "postExamples"}
styleKeys == {"all", "chat", "post"}

Undefined == [type |-> "undefined", src |-> -1, keys |-> {}, styleType |-> "none", styleKeys |-> {}]
Null == [type |-> "null", src |-> -1, keys |-> {}, styleType |-> "none", styleKeys |-> {}]
Obj(i, ks, st, sks) == [type |-> "object", src |-> i, keys |-> ks, styleType |-> st, styleKeys |-> sks]

\* The parsed responses a backend may give for the prompt of chunk i.
ValidResult(i) == Obj(i, requiredKeys, "object", styleKeys)
MissingKey(i) == Obj(i, requiredKeys \ {"lore"}, "object", styleKeys)
MissingFacet(i) == Obj(i, requiredKeys, "object", styleKeys \ {"chat"})
StyleNotObject(i) == Obj(i, requiredKeys, "primitive", {})
Responses(i) == {ValidResult(i), MissingKey(i), MissingFacet(i), StyleNotObject(i), Null}
\* One answer of each behaviour: accepted, rejected, raising in validateJson.
SomeResponses(i) == {ValidResult(i), MissingKey(i), StyleNotObject(i)}

\* What a call of the backend may throw: a non-ok status, JSON.parse on text
\* that is no JSON.
Errors == {"HttpError", "SyntaxError"}

\* An outcome of an asynchronous call: nothing yet, a value, or an error.
NoOutcome == [kind |-> "none", val |-> Undefined, err |-> "none"]
Returned(v) == [kind |-> "value", val |-> v, err |-> "none"]
Thrown(e) == [kind |-> "error", val |-> Undefined, err |-> e]

\* JavaScript truthiness of the values above (objects are truthy).
Truthy(v) == v.type = "object"

\* validateJson: `key in json` raises a TypeError when json is no object,
\* and `key in json.style` when style is present and is no object.
validateJsonThrows(json) ==
    \/ json.type # "object"
    \/ /\ requiredKeys \subseteq json.keys
       /\ json.styleType # "object"

validateJson(json) ==
    /\ requiredKeys \subseteq json.keys
    /\ "style" \in json.keys
    /\ styleKeys \subseteq json.styleKeys

\* --------------------------------------------------------------- variables
VARIABLES
    \* retryWithExponentialBackoff, one invocation per task at a time
    rpc,        \* "idle" | "calling" | "sleeping" | "returned" | "thrown"
    retries,    \* the retries parameter of the current recursion level
    calls,      \* calls of func made by the current invocation
    throws,     \* calls of func that threw, current invocation
    delays,     \* the pauses slept by the current invocation, in order
    funcLast,   \* outcome of the latest call of func
    rout,       \* outcome of the wrapper
    \* limitConcurrency
    nTasks,           \* tasks.length
    concurrencyLimit, \* the ceiling
    queue,            \* the tasks not yet shifted, by index
    runningTasks,     \* the Set of tasks added and not yet deleted
    results,          \* the results pushed so far
    runner,           \* per runNext chain: the task it awaits, or a marker
    launched,         \* initial runNext chains created so far
    lc,               \* "idle" | "launching" | "awaiting" | "returned"
    \* the tasks
    tpc,        \* "queued" | "running" | "settled"
    tout,       \* outcome of the task's promise
    invoked,    \* how many times the task function was called
    \* extractInfo, one invocation per chunk at a time
    epc,          \* "idle" | "awaiting" (the retry wrapper) | "settled"
    attempts,     \* let attempts
    result,       \* let result
    eout,         \* outcome of the extractInfo promise
    backendCalls, \* requests sent to the backend by the invocation
    cacheWrites,  \* writeCacheFile calls made by the invocation
    seen,         \* kinds of backend answers the invocation got
    snap,         \* the cache files of the chunk as they were at the call
    \* the archive's cache directory
    promptFiles,  \* the i with a file prompt_<i>.json
    responseFile, \* <<i, model>> -> content of prompt_response_<i>_<model>.json
    chunkFiles,   \* the i with a file chunk_<i>.json
    unchunkedData, \* whether unchunked_data.json exists
    diskCache,    \* content of project_cache.json
    \* main
    mpc,          \* "start" | "session" | "prepare" | "extracting" | "written" | "done" | "cleared" | "failed"
    projectCache, \* let projectCache
    nChunks,      \* chunks.length, fixed by the archive
    validResults, \* the list passed to combineAndDeduplicate
    run,          \* starts of the process so far
    resumedAt,    \* currentChunk of the stored session the user continued;
                  \* -2 when the user discarded it, -1 when there was none
    finished,     \* chunks whose extractInfo call has settled, in any run
    faults,       \* backend failures and invalid answers so far
    \* a call of one of the synchronous functions, studied on its own
    fnPc,         \* "idle" | "called" | "returned"
    fnArg,        \* the arguments of the call
    fnRet         \* what the call returned

retryVars == <<rpc, retries, calls, throws, delays, funcLast, rout>>
limVars == <<nTasks, concurrencyLimit, queue, runningTasks, results, runner, launched, lc>>
taskVars == <<tpc, tout, invoked>>
extractVars == <<epc, attempts, result, eout, backendCalls, cacheWrites, seen, snap>>
cacheVars == <<promptFiles, responseFile, chunkFiles, unchunkedData>>
fnVars == <<fnPc, fnArg, fnRet>>
mainVars == <<diskCache, mpc, projectCache, nChunks, validResults, run, resumedAt, finished, faults>>

vars == <<rpc, retries, calls, throws, delays, funcLast, rout,
          nTasks, concurrencyLimit, queue, runningTasks, results, runner, launched, lc,
          tpc, tout, invoked,
          epc, attempts, result, eout, backendCalls, cacheWrites, seen, snap,
          promptFiles, responseFile, chunkFiles, unchunkedData,
          diskCache, mpc, projectCache, nChunks, validResults, run, resumedAt, finished, faults,
          fnPc, fnArg, fnRet>>

\* No synchronous function is studied on its own.
FnIdle ==
    /\ fnPc = "idle"
    /\ fnArg = <<>>
    /\ fnRet = <<>>

\* ------------------------------------------------- retryWithExponentialBackoff
RetryIdle ==
    /\ rpc = [t \in TaskIds |-> "idle"]
    /\ retries = [t \in TaskIds |-> MAX_RETRIES]
    /\ calls = [t \in TaskIds |-> 0]
    /\ throws = [t \in TaskIds |-> 0]
    /\ delays = [t \in TaskIds |-> <<>>]
    /\ funcLast = [t \in TaskIds |-> NoOutcome]
    /\ rout = [t \in TaskIds |-> NoOutcome]

\* Every invocation is dropped (the process or the caller starts afresh).
retryReset ==
    /\ rpc' = [t \in TaskIds |-> "idle"]
    /\ retries' = [t \in TaskIds |-> MAX_RETRIES]
    /\ calls' = [t \in TaskIds |-> 0]
    /\ throws' = [t \in TaskIds |-> 0]
    /\ delays' = [t \in TaskIds |-> <<>>]
    /\ funcLast' = [t \in TaskIds |-> NoOutcome]
    /\ rout' = [t \in TaskIds |-> NoOutcome]

\* The settled invocation of task t has been consumed by its caller.
retryRelease(t) ==
    /\ rpc' = [rpc EXCEPT ![t] = "idle"]
    /\ retries' = [retries EXCEPT ![t] = MAX_RETRIES]
    /\ calls' = [calls EXCEPT ![t] = 0]
    /\ throws' = [throws EXCEPT ![t] = 0]
    /\ delays' = [delays EXCEPT ![t] = <<>>]
    /\ funcLast' = [funcLast EXCEPT ![t] = NoOutcome]
    /\ rout' = [rout EXCEPT ![t] = NoOutcome]

\* A slip that counts the elapsed retries from zero.
RetryPauseFromZero(r) == RETRY_DELAY * (MAX_RETRIES - r)

\* The pause before the next retry when `r` retries are left.
RetryPause(r) == RETRY_DELAY * (MAX_RETRIES - r + 1)

\* A slip that allows one retry too many.
MayRetryOnceMore(r) == r >= 0

\* `if (retries > 0)`
MayRetry(r) == r > 0

\* retryWithExponentialBackoff(func): the default retries, then func().
retryEnter(t) ==
    /\ rpc' = [rpc EXCEPT ![t] = "calling"]
    /\ retries' = [retries EXCEPT ![t] = MAX_RETRIES]
    /\ calls' = [calls EXCEPT ![t] = 1]
    /\ throws' = [throws EXCEPT ![t] = 0]
    /\ delays' = [delays EXCEPT ![t] = <<>>]
    /\ funcLast' = [funcLast EXCEPT ![t] = NoOutcome]
    /\ rout' = [rout EXCEPT ![t] = NoOutcome]

\* `return await func()` when func resolves with v.
funcReturns(t, v) ==
    /\ rpc[t] = "calling"
    /\ rpc' = [rpc EXCEPT ![t] = "returned"]
    /\ funcLast' = [funcLast EXCEPT ![t] = Returned(v)]
    /\ rout' = [rout EXCEPT ![t] = Returned(v)]
    /\ UNCHANGED <<retries, calls, throws, delays>>

\* The catch block when func rejects with e: sleep, or rethrow.
funcThrows(t, e) ==
    /\ rpc[t] = "calling"
    /\ funcLast' = [funcLast EXCEPT ![t] = Thrown(e)]
    /\ throws' = [throws EXCEPT ![t] = @ + 1]
    /\ IF MayRetry(retries[t])
       THEN /\ rpc' = [rpc EXCEPT ![t] = "sleeping"]
            /\ delays' = [delays EXCEPT ![t] = Append(@, RetryPause(retries[t]))]
            /\ UNCHANGED rout
       ELSE /\ rpc' = [rpc EXCEPT ![t] = "thrown"]
            /\ rout' = [rout EXCEPT ![t] = Thrown(e)]
            /\ UNCHANGED delays
    /\ UNCHANGED <<retries, calls>>

\* The timer fires: retryWithExponentialBackoff(func, retries - 1) calls func.
retryWake(t) ==
    /\ rpc[t] = "sleeping"
    /\ rpc' = [rpc EXCEPT ![t] = "calling"]
    /\ retries' = [retries EXCEPT ![t] = @ - 1]
    /\ calls' = [calls EXCEPT ![t] = @ + 1]
    /\ UNCHANGED <<throws, delays, funcLast, rout>>

\* ------------------------------------------------------------------ the cache
\* The backends a session may select.
Models == {"openai", "claude"}

\* The content readCacheFile finds where no file exists.
NoFile == [type |-> "nofile", src |-> -1, keys |-> {}, styleType |-> "none", styleKeys |-> {}]

\* readCacheFile: the parsed content, or null when the file does not exist.
readCacheFile(f) == IF f = NoFile THEN Null ELSE f

\* The cache directory of an archive that was never processed: no file.
CacheEmpty ==
    /\ promptFiles = {}
    /\ responseFile = [k \in TaskIds \X Models |-> NoFile]
    /\ chunkFiles = {}
    /\ unchunkedData = FALSE

\* A slip that leaves the backend out of the response file's name.
promptResponseFileNameWithoutModel(i, m) == <<i, "openai">>

\* `prompt_response_${chunkIndex}_${model}.json`
promptResponseFileName(i, m) == <<i, m>>

\* The names of the files of the cache directory, as sequences of their
\* parts.
promptFileName(i) == <<"prompt_", ToString(i), ".json">>
responseName(k) == <<"prompt_", "response_", ToString(k[1]), "_", k[2], ".json">>
chunkFileName(i) == <<"chunk_", ToString(i), ".json">>
unchunkedDataName == <<"unchunked_data", ".json">>
projectCacheName == <<"project_cache", ".json">>

\* file.startsWith(prefix)
startsWith(file, prefix) ==
    /\ Len(file) >= Len(prefix)
    /\ SubSeq(file, 1, Len(prefix)) = prefix

\* A slip that unlinks every file whose name starts with prompt_.
clearedPrefixPrompt == <<"prompt_">>

\* 'prompt_response_'
clearedPrefix == <<"prompt_", "response_">>

\* clearGenerationCache: unlink every file of the cache directory whose name
\* starts with prompt_response_.
clearGenerationCache ==
    /\ responseFile' = [k \in TaskIds \X Models |->
            IF startsWith(responseName(k), clearedPrefix) THEN NoFile ELSE responseFile[k]]
    /\ promptFiles' = {i \in promptFiles : ~startsWith(promptFileName(i), clearedPrefix)}
    /\ chunkFiles' = {i \in chunkFiles : ~startsWith(chunkFileName(i), clearedPrefix)}
    /\ unchunkedData' = (unchunkedData /\ ~startsWith(unchunkedDataName, clearedPrefix))
    /\ diskCache' = IF startsWith(projectCacheName, clearedPrefix)
                     THEN [exists |-> FALSE, model |-> "none", session |-> FALSE,
                           currentChunk |-> 0, totalChunks |-> 0, completed |-> FALSE]
                     ELSE diskCache

\* ---------------------------------------------------------------- extractInfo
\* const maxAttempts = 3
maxAttempts == 3

ExtractIdle ==
    /\ epc = [t \in TaskIds |-> "idle"]
    /\ attempts = [t \in TaskIds |-> 0]
    /\ result = [t \in TaskIds |-> Undefined]
    /\ eout = [t \in TaskIds |-> NoOutcome]
    /\ backendCalls = [t \in TaskIds |-> 0]
    /\ cacheWrites = [t \in TaskIds |-> 0]
    /\ seen = [t \in TaskIds |-> {}]
    /\ snap = [t \in TaskIds |-> [prompt |-> FALSE, response |-> NoFile, model |-> "none"]]

extractReset ==
    /\ epc' = [t \in TaskIds |-> "idle"]
    /\ attempts' = [t \in TaskIds |-> 0]
    /\ result' = [t \in TaskIds |-> Undefined]
    /\ eout' = [t \in TaskIds |-> NoOutcome]
    /\ backendCalls' = [t \in TaskIds |-> 0]
    /\ cacheWrites' = [t \in TaskIds |-> 0]
    /\ seen' = [t \in TaskIds |-> {}]
    /\ snap' = [t \in TaskIds |-> [prompt |-> FALSE, response |-> NoFile, model |-> "none"]]

\* The kind of a backend answer: no object at all, an object for which
\* validateJson returns true, or an object for which it returns false or
\* raises.
AnswerKind(v) ==
    IF v.type # "object" THEN "nonobject"
    ELSE IF ~validateJsonThrows(v) /\ validateJson(v)
         THEN "valid"
         ELSE "invalid"

\* `if (cachedPrompt && cachedPromptResponse)`
cacheHit(i, m) ==
    /\ i \in promptFiles
    /\ Truthy(readCacheFile(responseFile[promptResponseFileName(i, m)]))

\* A slip that returns whatever the last attempt left in result.
afterLoopUnchecked(res) == Returned(res)

\* After the loop: `if (!validateJson(result)) return null`, else the result.
afterLoop(res) == IF ~validateJson(res) THEN Returned(Null) ELSE Returned(res)

\* A slip that does not write the prompt file.
writeNoPromptFile(files, i) == files

\* writeCacheFile(cacheDir, promptFileName, { prompt: prompt(...) })
writePromptFile(files, i) == files \cup {i}

\* extractInfo up to its first await: the cached response when prompt and
\* response are both cached; else the prompt is written, attempts becomes 1
\* and the first request goes out under the retry wrapper.
extractEnter(t, m) ==
    IF cacheHit(t, m)
    THEN /\ epc' = [epc EXCEPT ![t] = "settled"]
         /\ eout' = [eout EXCEPT ![t] =
                Returned(readCacheFile(responseFile[promptResponseFileName(t, m)]))]
         /\ attempts' = [attempts EXCEPT ![t] = 0]
         /\ result' = [result EXCEPT ![t] = Undefined]
         /\ backendCalls' = [backendCalls EXCEPT ![t] = 0]
         /\ cacheWrites' = [cacheWrites EXCEPT ![t] = 0]
         /\ seen' = [seen EXCEPT ![t] = {}]
         /\ UNCHANGED <<retryVars, cacheVars>>
    ELSE /\ promptFiles' = writePromptFile(promptFiles, t)
         /\ UNCHANGED <<chunkFiles, unchunkedData>>
         /\ cacheWrites' = [cacheWrites EXCEPT ![t] = 1]
         /\ attempts' = [attempts EXCEPT ![t] = 1]
         /\ result' = [result EXCEPT ![t] = Undefined]
         /\ retryEnter(t)
         /\ backendCalls' = [backendCalls EXCEPT ![t] = 1]
         /\ epc' = [epc EXCEPT ![t] = "awaiting"]
         /\ eout' = [eout EXCEPT ![t] = NoOutcome]
         /\ seen' = [seen EXCEPT ![t] = {}]
         /\ UNCHANGED responseFile

\* The backend answers the open request of chunk t with the parsed value v.
backendReturns(t, v) ==
    /\ epc[t] = "awaiting"
    /\ funcReturns(t, v)
    /\ seen' = [seen EXCEPT ![t] = @ \cup {AnswerKind(v)}]
    /\ UNCHANGED <<epc, attempts, result, eout, backendCalls, cacheWrites, snap, cacheVars>>

\* The open request of chunk t fails: runChatCompletion throws e.
backendThrows(t, e) ==
    /\ epc[t] = "awaiting"
    /\ funcThrows(t, e)
    /\ seen' = [seen EXCEPT ![t] = @ \cup {"throw"}]
    /\ UNCHANGED <<epc, attempts, result, eout, backendCalls, cacheWrites, snap, cacheVars>>

\* The retry pause of chunk t is over: the next request goes out.
backendRetry(t) ==
    /\ epc[t] = "awaiting"
    /\ retryWake(t)
    /\ backendCalls' = [backendCalls EXCEPT ![t] = @ + 1]
    /\ UNCHANGED <<epc, attempts, result, eout, cacheWrites, seen, snap, cacheVars>>

\* extractInfo settles with outcome o and leaves the cache as it is.
extractSettle(t, res, o) ==
    /\ epc' = [epc EXCEPT ![t] = "settled"]
    /\ eout' = [eout EXCEPT ![t] = o]
    /\ result' = [result EXCEPT ![t] = res]
    /\ retryRelease(t)
    /\ UNCHANGED <<attempts, backendCalls>>

\* The continuation of `await retryWithExponentialBackoff(...)`: the rest of
\* the try block, the catch block, the loop condition and, when the loop is
\* left, the code after it, up to the next await or the return.
extractResume(t, m) ==
    LET res == IF rout[t].kind = "value" THEN rout[t].val ELSE result[t]
        \* the try block raised: the wrapper threw, or validateJson(result) did
        caught == rout[t].kind = "error" \/ validateJsonThrows(res)
        error == IF rout[t].kind = "error" THEN rout[t].err ELSE "TypeError"
    IN  /\ epc[t] = "awaiting"
        /\ rpc[t] \in {"returned", "thrown"}
        /\ UNCHANGED <<seen, snap, promptFiles, chunkFiles, unchunkedData>>
        /\ IF caught /\ attempts[t] >= maxAttempts
           THEN \* `if (attempts >= maxAttempts) throw error`
                /\ extractSettle(t, res, Thrown(error))
                /\ UNCHANGED <<cacheWrites, responseFile>>
           ELSE IF validateJsonThrows(res)
           THEN \* the loop condition itself raises, outside the try block
                /\ extractSettle(t, res, Thrown("TypeError"))
                /\ UNCHANGED <<cacheWrites, responseFile>>
           ELSE IF ~validateJson(res) /\ attempts[t] < maxAttempts
           THEN \* once more around the loop: attempts++, a new request
                /\ attempts' = [attempts EXCEPT ![t] = @ + 1]
                /\ result' = [result EXCEPT ![t] = res]
                /\ retryEnter(t)
                /\ backendCalls' = [backendCalls EXCEPT ![t] = @ + 1]
                /\ UNCHANGED <<epc, eout, cacheWrites, responseFile>>
           ELSE IF afterLoop(res) = Returned(Null)
           THEN /\ extractSettle(t, res, Returned(Null))
                /\ UNCHANGED <<cacheWrites, responseFile>>
           ELSE \* writeCacheFile(cacheDir, promptResponseFileName, result)
                /\ extractSettle(t, res, afterLoop(res))
                /\ responseFile' = [responseFile EXCEPT
                        ![promptResponseFileName(t, m)] = afterLoop(res).val]
                /\ cacheWrites' = [cacheWrites EXCEPT ![t] = @ + 1]

\* ------------------------------------------------------------ limitConcurrency
Runners == 1 .. MaxLimit
NotStarted == -1    \* the chain was not created
Finished == -2      \* the chain's runNext found the queue empty and returned
Ready == -3         \* the chain is in its finally block, about to call runNext

Min(a, b) == IF a < b THEN a ELSE b

RECURSIVE Range(_, _)
\* <<a, a+1, ..., b-1>>: [...tasks], by index
Range(a, b) == IF a >= b THEN <<>> ELSE <<a>> \o Range(a + 1, b)

\* No limitConcurrency call is open.
LimIdle ==
    /\ nTasks = 0
    /\ concurrencyLimit = 0
    /\ queue = <<>>
    /\ runningTasks = {}
    /\ results = <<>>
    /\ runner = [r \in Runners |-> NotStarted]
    /\ launched = 0
    /\ lc = "idle"

TasksIdle ==
    /\ tpc = [t \in TaskIds |-> "queued"]
    /\ tout = [t \in TaskIds |-> NoOutcome]
    /\ invoked = [t \in TaskIds |-> 0]

\* limitConcurrency(tasks, limit) up to the creation of the initial chains.
limEnter(n, limit) ==
    /\ nTasks' = n
    /\ concurrencyLimit' = limit
    /\ queue' = Range(0, n)
    /\ runningTasks' = {}
    /\ results' = <<>>
    /\ runner' = [r \in Runners |-> NotStarted]
    /\ launched' = 0
    /\ lc' = "launching"

\* A slip that creates one chain per task.
initialTasksPerTask(limit, n) == n

\* Array(Math.min(concurrencyLimit, tasks.length)): the number of chains.
initialTasks(limit, n) == Min(limit, n)

\* Synchronous code is running: no continuation or callback can run now.
InSync == lc = "launching" \/ \E r \in Runners : runner[r] = Ready

\* runNext up to `await task()`: return on an empty queue, else shift the
\* next task and add it to runningTasks.  The call of the task is the
\* caller's part of the step.
runNext(r) ==
    IF queue = <<>>
    THEN /\ runner' = [runner EXCEPT ![r] = Finished]
         /\ UNCHANGED <<queue, runningTasks>>
    ELSE /\ queue' = Tail(queue)
         /\ runningTasks' = runningTasks \cup {Head(queue)}
         /\ runner' = [runner EXCEPT ![r] = Head(queue)]

\* .map(() => runNext()): the next initial chain.
limLaunch ==
    /\ lc = "launching"
    /\ launched < initialTasks(concurrencyLimit, nTasks)
    /\ runNext(launched + 1)
    /\ launched' = launched + 1
    /\ UNCHANGED <<nTasks, concurrencyLimit, results, lc>>

\* await Promise.all(initialTasks)
limAwait ==
    /\ lc = "launching"
    /\ launched = initialTasks(concurrencyLimit, nTasks)
    /\ lc' = "awaiting"
    /\ UNCHANGED <<nTasks, concurrencyLimit, queue, runningTasks, results, runner, launched>>

\* A slip that drops the catch block's null.
PushedWithoutCatch(o) == o.val

\* What the chain pushes for a settled task: its value, or null in the catch.
Pushed(o) == IF o.kind = "value" THEN o.val ELSE Null

\* The continuation of `await task()`: push, then the finally block deletes
\* the task and is about to call runNext.
limCollect(r) ==
    /\ ~InSync
    /\ runner[r] >= 0
    /\ tout[runner[r]].kind # "none"
    /\ results' = Append(results, Pushed(tout[runner[r]]))
    /\ runningTasks' = runningTasks \ {runner[r]}
    /\ runner' = [runner EXCEPT ![r] = Ready]
    /\ UNCHANGED <<nTasks, concurrencyLimit, queue, launched, lc>>

\* `await runNext()` of the finally block.
limContinue(r) ==
    /\ lc # "launching"
    /\ runner[r] = Ready
    /\ runNext(r)
    /\ UNCHANGED <<nTasks, concurrencyLimit, results, launched, lc>>

\* Every initial chain has resolved: the second Promise.all, `return results`.
limReturn ==
    /\ lc = "awaiting"
    /\ ~InSync
    /\ \A r \in 1 .. launched : runner[r] = Finished
    /\ lc' = "returned"
    /\ UNCHANGED <<nTasks, concurrencyLimit, queue, runningTasks, results, runner, launched>>

\* ----------------------------------------------------------------------- main
\* limitConcurrency(tasks, 3)
mainConcurrency == 3

\* readCacheFile of a project_cache.json that does not exist, and `|| {}`.
NoProjectCache == [exists |-> FALSE, model |-> "none", session |-> FALSE,
                   currentChunk |-> 0, totalChunks |-> 0, completed |-> FALSE]
EmptyProjectCache == [NoProjectCache EXCEPT !.exists = TRUE]

\* No process is running and nothing is stored for the archive.
MainIdle ==
    /\ diskCache = NoProjectCache
    /\ mpc = "start"
    /\ projectCache = EmptyProjectCache
    /\ nChunks = 0
    /\ validResults = <<>>
    /\ run = 0
    /\ resumedAt = -1
    /\ finished = {}
    /\ faults = 0

\* loadProjectCache(archivePath) || {}
loadProjectCache == IF diskCache.exists THEN diskCache ELSE EmptyProjectCache

\* A slip that starts the new session at the cursor of the discarded one.
resumeOrStartNewSessionKeepsCursor(cache, choice, m) ==
    IF cache.session /\ choice = "y"
    THEN cache
    ELSE [cache EXCEPT !.model = m, !.session = TRUE,
                       !.totalChunks = 0, !.completed = FALSE]

\* resumeOrStartNewSession: with a stored session the user is asked; on any
\* answer but y the session is dropped and the responses are cleared; with
\* no session (left) the model is asked and a session at chunk 0 is made.
resumeOrStartNewSession(cache, choice, m) ==
    IF cache.session /\ choice = "y"
    THEN cache
    ELSE [cache EXCEPT !.model = m, !.session = TRUE, !.currentChunk = 0,
                       !.totalChunks = 0, !.completed = FALSE]

\* A slip that also skips the chunk the cursor points at.
skipChunkInclusive(index, cursor) == index <= cursor

\* `if (index < projectCache.unfinishedSession.currentChunk) return null`
skipChunk(index, cursor) == index < cursor

\* The start of main up to the answers of the user.
MainLoad ==
    \E choice \in {"y", "n"} : \E m \in Models :
        /\ mpc = "start"
        /\ run < MaxRuns
        /\ run' = run + 1
        /\ projectCache' = resumeOrStartNewSession(loadProjectCache, choice, m)
        /\ resumedAt' = IF loadProjectCache.session /\ choice = "y"
                         THEN loadProjectCache.currentChunk
                         ELSE IF loadProjectCache.session THEN -2 ELSE -1
        /\ IF loadProjectCache.session /\ choice # "y"
           THEN clearGenerationCache
           ELSE UNCHANGED cacheVars
        /\ mpc' = "session"
        /\ UNCHANGED <<diskCache, nChunks, validResults, finished, faults>>
        /\ UNCHANGED <<retryVars, limVars, taskVars, extractVars>>
        /\ UNCHANGED fnVars

\* getApiKey, then saveProjectCache(archivePath, projectCache).
MainSave ==
    /\ mpc = "session"
    /\ diskCache' = projectCache
    /\ mpc' = "prepare"
    /\ UNCHANGED <<projectCache, nChunks, validResults, run, resumedAt, finished, faults>>
    /\ UNCHANGED <<retryVars, limVars, taskVars, extractVars, cacheVars>>
    /\ UNCHANGED fnVars

\* The archive is read and chunked, totalChunks is set, the tasks are built
\* and limitConcurrency(tasks, 3) is entered.
MainPrepare ==
    /\ mpc = "prepare"
    /\ projectCache' = [projectCache EXCEPT !.totalChunks = nChunks]
    /\ unchunkedData' = TRUE
    /\ chunkFiles' = chunkFiles \cup (0 .. nChunks - 1)
    /\ limEnter(nChunks, mainConcurrency)
    /\ mpc' = "extracting"
    /\ UNCHANGED <<diskCache, nChunks, validResults, run, resumedAt, finished, faults>>
    /\ UNCHANGED <<retryVars, taskVars, extractVars, promptFiles, responseFile>>
    /\ UNCHANGED fnVars

\* task(): the chunk task up to its first await.  A chunk below the cursor
\* resolves with null at once; else extractInfo is called.
mainTaskStart(t) ==
    /\ invoked' = [invoked EXCEPT ![t] = @ + 1]
    /\ IF skipChunk(t, projectCache.currentChunk)
       THEN /\ tpc' = [tpc EXCEPT ![t] = "settled"]
            /\ tout' = [tout EXCEPT ![t] = Returned(Null)]
            /\ UNCHANGED <<retryVars, extractVars, cacheVars, finished>>
       ELSE /\ tpc' = [tpc EXCEPT ![t] = "running"]
            /\ UNCHANGED tout
            /\ snap' = [snap EXCEPT ![t] =
                    [prompt |-> t \in promptFiles,
                     response |-> responseFile[<<t, projectCache.model>>],
                     model |-> projectCache.model]]
            /\ extractEnter(t, projectCache.model)
            /\ finished' = IF epc'[t] = "settled" THEN finished \cup {t} ELSE finished

\* A promise has settled and its continuation has not run yet, or
\* synchronous code is running.  The event loop runs every such continuation
\* before it delivers the next network answer or timer.
MicrotaskPending ==
    \/ InSync
    \/ \E t \in TaskIds :
          \/ epc[t] = "awaiting" /\ rpc[t] \in {"returned", "thrown"}
          \/ tpc[t] = "running" /\ epc[t] = "settled"
    \/ \E r \in Runners : runner[r] >= 0 /\ tout[runner[r]].kind # "none"

mainStartOrFinish ==
    IF queue = <<>>
    THEN UNCHANGED <<taskVars, retryVars, extractVars, cacheVars, finished>>
    ELSE mainTaskStart(Head(queue))

MainLaunch ==
    /\ mpc = "extracting"
    /\ limLaunch
    /\ mainStartOrFinish
    /\ UNCHANGED <<diskCache, mpc, projectCache, nChunks, validResults, run, resumedAt, faults>>
    /\ UNCHANGED fnVars

MainAwait ==
    /\ mpc = "extracting"
    /\ limAwait
    /\ UNCHANGED <<retryVars, taskVars, extractVars, cacheVars, mainVars>>
    /\ UNCHANGED fnVars

\* The backend answers a request; an answer that is not valid, and a failed
\* request, count as faults.
MainBackendReturns ==
    \E t \in TaskIds : \E v \in SomeResponses(t) :
        /\ mpc = "extracting"
        /\ ~MicrotaskPending
        /\ AnswerKind(v) # "valid" => faults < MaxFaults
        /\ faults' = IF AnswerKind(v) # "valid" THEN faults + 1 ELSE faults
        /\ backendReturns(t, v)
        /\ UNCHANGED <<limVars, taskVars>>
        /\ UNCHANGED <<diskCache, mpc, projectCache, nChunks, validResults, run, resumedAt, finished>>
        /\ UNCHANGED fnVars

MainBackendThrows ==
    \E t \in TaskIds : \E e \in {"HttpError"} :
        /\ mpc = "extracting"
        /\ ~MicrotaskPending
        /\ faults < MaxFaults
        /\ faults' = faults + 1
        /\ backendThrows(t, e)
        /\ UNCHANGED <<limVars, taskVars>>
        /\ UNCHANGED <<diskCache, mpc, projectCache, nChunks, validResults, run, resumedAt, finished>>
        /\ UNCHANGED fnVars

MainBackendRetry ==
    \E t \in TaskIds :
        /\ mpc = "extracting"
        /\ ~MicrotaskPending
        /\ backendRetry(t)
        /\ UNCHANGED <<limVars, taskVars, mainVars>>
        /\ UNCHANGED fnVars

\* The continuation of extractInfo's await of the retry wrapper.
MainExtractResume ==
    \E t \in TaskIds :
        /\ mpc = "extracting"
        /\ ~InSync
        /\ extractResume(t, projectCache.model)
        /\ finished' = IF epc'[t] = "settled" THEN finished \cup {t} ELSE finished
        /\ UNCHANGED <<limVars, taskVars>>
        /\ UNCHANGED <<diskCache, mpc, projectCache, nChunks, validResults, run, resumedAt, faults>>
        /\ UNCHANGED fnVars

\* `projectCache.unfinishedSession.currentChunk = index + 1`
cursorAfter(cursor, index) == index + 1

\* The continuation of the task's `await extractInfo(...)`: the cursor is
\* set and saved and the task resolves; or the task rejects with the error.
\* The locals of the extractInfo call are gone with it.
MainTaskResume ==
    \E t \in TaskIds :
        /\ mpc = "extracting"
        /\ ~InSync
        /\ tpc[t] = "running"
        /\ epc[t] = "settled"
        /\ tpc' = [tpc EXCEPT ![t] = "settled"]
        /\ IF eout[t].kind = "error"
           THEN /\ tout' = [tout EXCEPT ![t] = eout[t]]
                /\ UNCHANGED <<projectCache, diskCache>>
           ELSE /\ projectCache' = [projectCache EXCEPT
                        !.currentChunk = cursorAfter(projectCache.currentChunk, t)]
                /\ diskCache' = projectCache'
                /\ tout' = [tout EXCEPT ![t] = Returned(eout[t].val)]
        /\ result' = [result EXCEPT ![t] = Undefined]
        /\ cacheWrites' = [cacheWrites EXCEPT ![t] = 0]
        /\ seen' = [seen EXCEPT ![t] = {}]
        /\ snap' = [snap EXCEPT ![t] = [prompt |-> FALSE, response |-> NoFile, model |-> "none"]]
        /\ eout' = [eout EXCEPT ![t] = NoOutcome]
        /\ backendCalls' = [backendCalls EXCEPT ![t] = 0]
        /\ UNCHANGED <<epc, attempts>>
        /\ UNCHANGED <<invoked, retryVars, limVars, cacheVars>>
        /\ UNCHANGED <<mpc, nChunks, validResults, run, resumedAt, finished, faults>>
        /\ UNCHANGED fnVars

MainCollect ==
    \E r \in Runners :
        /\ mpc = "extracting"
        /\ limCollect(r)
        /\ UNCHANGED <<retryVars, taskVars, extractVars, cacheVars, mainVars>>
        /\ UNCHANGED fnVars

MainContinue ==
    \E r \in Runners :
        /\ mpc = "extracting"
        /\ limContinue(r)
        /\ mainStartOrFinish
        /\ UNCHANGED <<diskCache, mpc, projectCache, nChunks, validResults, run, resumedAt, faults>>
        /\ UNCHANGED fnVars

MainReturn ==
    /\ mpc = "extracting"
    /\ limReturn
    /\ UNCHANGED <<retryVars, taskVars, extractVars, cacheVars, mainVars>>
    /\ UNCHANGED fnVars

\* A slip that passes every entry on.
filterNothing(rs) == rs

\* results.filter(result => result !== null)
filterNotNull(rs) == SelectSeq(rs, LAMBDA r : r # Null)

\* The nulls are filtered out, the rest is combined and character.json is
\* written.
MainAggregate ==
    /\ mpc = "extracting"
    /\ lc = "returned"
    /\ validResults' = filterNotNull(results)
    /\ mpc' = "written"
    /\ UNCHANGED <<diskCache, projectCache, nChunks, run, resumedAt, finished, faults>>
    /\ UNCHANGED <<retryVars, limVars, taskVars, extractVars, cacheVars>>
    /\ UNCHANGED fnVars

\* completed = true, saveProjectCache.
MainComplete ==
    /\ mpc = "written"
    /\ projectCache' = [projectCache EXCEPT !.completed = TRUE]
    /\ diskCache' = projectCache'
    /\ mpc' = "done"
    /\ UNCHANGED <<nChunks, validResults, run, resumedAt, finished, faults>>
    /\ UNCHANGED <<retryVars, limVars, taskVars, extractVars, cacheVars>>
    /\ UNCHANGED fnVars

\* clearGenerationCache(archivePath) at the end of main.
MainClear ==
    /\ mpc = "done"
    /\ clearGenerationCache
    /\ mpc' = "cleared"
    /\ UNCHANGED <<projectCache, nChunks, validResults, run, resumedAt, finished, faults>>
    /\ UNCHANGED <<retryVars, limVars, taskVars, extractVars>>
    /\ UNCHANGED fnVars

\* An error escapes safeExecute and main's catch block ends the run: the
\* archive cannot be read or chunked, or the result cannot be combined or
\* character.json cannot be written.
MainFail ==
    /\ \/ mpc = "prepare"
       \/ mpc = "extracting" /\ lc = "returned"
    /\ mpc' = "failed"
    /\ UNCHANGED <<diskCache, projectCache, nChunks, validResults, run, resumedAt, finished, faults>>
    /\ UNCHANGED <<retryVars, limVars, taskVars, extractVars, cacheVars>>
    /\ UNCHANGED fnVars

\* The process ends, by itself or interrupted at any point: everything in
\* memory is lost, the files stay.  The next start begins in MainLoad.
MainExit ==
    /\ mpc # "start"
    /\ run < MaxRuns
    /\ mpc' = "start"
    /\ projectCache' = EmptyProjectCache
    /\ validResults' = <<>>
    /\ resumedAt' = -1
    /\ retryReset
    /\ extractReset
    /\ nTasks' = 0
    /\ concurrencyLimit' = 0
    /\ queue' = <<>>
    /\ runningTasks' = {}
    /\ results' = <<>>
    /\ runner' = [r \in Runners |-> NotStarted]
    /\ launched' = 0
    /\ lc' = "idle"
    /\ tpc' = [t \in TaskIds |-> "queued"]
    /\ tout' = [t \in TaskIds |-> NoOutcome]
    /\ invoked' = [t \in TaskIds |-> 0]
    /\ UNCHANGED <<diskCache, nChunks, run, finished, faults, cacheVars>>
    /\ UNCHANGED fnVars

MainInit ==
    /\ RetryIdle /\ LimIdle /\ TasksIdle /\ ExtractIdle /\ CacheEmpty /\ FnIdle
    /\ diskCache = NoProjectCache
    /\ mpc = "start"
    /\ projectCache = EmptyProjectCache
    /\ nChunks \in 1 .. MaxTasks
    /\ validResults = <<>>
    /\ run = 0
    /\ resumedAt = -1
    /\ finished = {}
    /\ faults = 0

MainNext ==
    \/ MainLoad
    \/ MainSave
    \/ MainPrepare
    \/ MainLaunch
    \/ MainAwait
    \/ MainBackendReturns
    \/ MainBackendThrows
    \/ MainBackendRetry
    \/ MainExtractResume
    \/ MainTaskResume
    \/ MainCollect
    \/ MainContinue
    \/ MainReturn
    \/ MainAggregate
    \/ MainComplete
    \/ MainClear
    \/ MainFail
    \/ MainExit

Spec == MainInit /\ [][MainNext]_vars

\* ---- the limiter on its own, over tasks that settle in any order
\* task(): the task function is called and returns a pending promise.
genericStart(t) ==
    /\ tpc' = [tpc EXCEPT ![t] = "running"]
    /\ invoked' = [invoked EXCEPT ![t] = @ + 1]
    /\ UNCHANGED tout

LimStartOrFinish(r) ==
    IF queue = <<>> THEN UNCHANGED taskVars ELSE genericStart(Head(queue))

LimLaunch ==
    /\ limLaunch
    /\ LimStartOrFinish(launched + 1)
    /\ UNCHANGED <<retryVars, extractVars, cacheVars, mainVars>>
    /\ UNCHANGED fnVars

LimAwait ==
    /\ limAwait
    /\ UNCHANGED <<retryVars, taskVars, extractVars, cacheVars, mainVars>>
    /\ UNCHANGED fnVars

LimTaskResolves ==
    \E t \in TaskIds : \E v \in {ValidResult(t), Null} :
        /\ ~InSync
        /\ tpc[t] = "running"
        /\ tpc' = [tpc EXCEPT ![t] = "settled"]
        /\ tout' = [tout EXCEPT ![t] = Returned(v)]
        /\ UNCHANGED <<retryVars, limVars, invoked, extractVars, cacheVars, mainVars>>
        /\ UNCHANGED fnVars

LimTaskRejects ==
    \E t \in TaskIds : \E e \in Errors :
        /\ ~InSync
        /\ tpc[t] = "running"
        /\ tpc' = [tpc EXCEPT ![t] = "settled"]
        /\ tout' = [tout EXCEPT ![t] = Thrown(e)]
        /\ UNCHANGED <<retryVars, limVars, invoked, extractVars, cacheVars, mainVars>>
        /\ UNCHANGED fnVars

LimCollect ==
    \E r \in Runners :
        /\ limCollect(r)
        /\ UNCHANGED <<retryVars, taskVars, extractVars, cacheVars, mainVars>>
        /\ UNCHANGED fnVars

LimContinue ==
    \E r \in Runners :
        /\ limContinue(r)
        /\ LimStartOrFinish(r)
        /\ UNCHANGED <<retryVars, extractVars, cacheVars, mainVars>>
        /\ UNCHANGED fnVars

LimReturn ==
    /\ limReturn
    /\ UNCHANGED <<retryVars, taskVars, extractVars, cacheVars, mainVars>>
    /\ UNCHANGED fnVars

LimInit ==
    /\ RetryIdle
    /\ TasksIdle
    /\ ExtractIdle
    /\ CacheEmpty
    /\ MainIdle
    /\ FnIdle
    /\ \E n \in 0 .. MaxTasks : \E limit \in 1 .. MaxLimit :
        /\ nTasks = n
        /\ concurrencyLimit = limit
        /\ queue = Range(0, n)
    /\ runningTasks = {}
    /\ results = <<>>
    /\ runner = [r \in Runners |-> NotStarted]
    /\ launched = 0
    /\ lc = "launching"

LimNext ==
    \/ LimLaunch
    \/ LimAwait
    \/ LimTaskResolves
    \/ LimTaskRejects
    \/ LimCollect
    \/ LimContinue
    \/ LimReturn

SpecLimit == LimInit /\ [][LimNext]_vars

\* ---- extractInfo on its own: a caller that makes one call at a time, for
\* any chunk and backend, and may clear the responses between calls
ExtractChunks == {0, 1}

ExCall ==
    \E t \in ExtractChunks : \E m \in Models :
        /\ \A u \in TaskIds : epc[u] = "idle"
        /\ snap' = [snap EXCEPT ![t] = [prompt |-> t \in promptFiles,
                                         response |-> responseFile[<<t, m>>],
                                         model |-> m]]
        /\ extractEnter(t, m)
        /\ UNCHANGED <<limVars, taskVars, mainVars>>
        /\ UNCHANGED fnVars

ExBackendReturns ==
    \E t \in ExtractChunks : \E v \in Responses(t) :
        /\ backendReturns(t, v)
        /\ UNCHANGED <<limVars, taskVars, mainVars>>
        /\ UNCHANGED fnVars

ExBackendThrows ==
    \E t \in ExtractChunks : \E e \in Errors :
        /\ backendThrows(t, e)
        /\ UNCHANGED <<limVars, taskVars, mainVars>>
        /\ UNCHANGED fnVars

ExBackendRetry ==
    \E t \in ExtractChunks :
        /\ backendRetry(t)
        /\ UNCHANGED <<limVars, taskVars, mainVars>>
        /\ UNCHANGED fnVars

ExResume ==
    \E t \in ExtractChunks :
        /\ extractResume(t, snap[t].model)
        /\ UNCHANGED <<limVars, taskVars, mainVars>>
        /\ UNCHANGED fnVars

\* The caller is done with the settled call.
ExForget ==
    /\ \E t \in ExtractChunks : epc[t] = "settled"
    /\ retryReset
    /\ extractReset
    /\ UNCHANGED <<limVars, taskVars, cacheVars, mainVars>>
    /\ UNCHANGED fnVars

ExClear ==
    /\ \A u \in TaskIds : epc[u] = "idle"
    /\ clearGenerationCache
    /\ UNCHANGED <<retryVars, limVars, taskVars, extractVars, mainVars>>
    /\ UNCHANGED fnVars

\* The process ends while a call is open: the call is gone, the files stay.
ExCrash ==
    /\ \E t \in ExtractChunks : epc[t] = "awaiting"
    /\ retryReset
    /\ extractReset
    /\ UNCHANGED <<limVars, taskVars, cacheVars, mainVars>>
    /\ UNCHANGED fnVars

ExInit == RetryIdle /\ LimIdle /\ TasksIdle /\ ExtractIdle /\ CacheEmpty /\ MainIdle /\ FnIdle

ExNext ==
    \/ ExCall
    \/ ExBackendReturns
    \/ ExBackendThrows
    \/ ExBackendRetry
    \/ ExResume
    \/ ExForget
    \/ ExClear
    \/ ExCrash

SpecExtract == ExInit /\ [][ExNext]_vars

\* ---- the wrapper on its own, around any func; the callers stand for the
\* invocations that are open at the same time (one per chunk in flight)
RetryCallers == {0, 1}

RetryCall ==
    \E t \in RetryCallers :
        /\ rpc[t] = "idle"
        /\ retryEnter(t)
        /\ UNCHANGED <<limVars, taskVars, extractVars, cacheVars, mainVars>>
        /\ UNCHANGED fnVars

RetryFuncReturns ==
    \E t \in RetryCallers : \E v \in Responses(t) :
        /\ funcReturns(t, v)
        /\ UNCHANGED <<limVars, taskVars, extractVars, cacheVars, mainVars>>
        /\ UNCHANGED fnVars

RetryFuncThrows ==
    \E t \in RetryCallers : \E e \in Errors :
        /\ funcThrows(t, e)
        /\ UNCHANGED <<limVars, taskVars, extractVars, cacheVars, mainVars>>
        /\ UNCHANGED fnVars

RetryWake ==
    \E t \in RetryCallers :
        /\ retryWake(t)
        /\ UNCHANGED <<limVars, taskVars, extractVars, cacheVars, mainVars>>
        /\ UNCHANGED fnVars

RetryInit == RetryIdle /\ LimIdle /\ TasksIdle /\ ExtractIdle /\ CacheEmpty /\ MainIdle /\ FnIdle

RetryNext ==
    \/ RetryCall
    \/ RetryFuncReturns
    \/ RetryFuncThrows
    \/ RetryWake

SpecRetry == RetryInit /\ [][RetryNext]_vars

\* ---- the asynchronous layers at rest, while one function call is studied
ProgramIdle ==
    RetryIdle /\ LimIdle /\ TasksIdle /\ ExtractIdle /\ CacheEmpty /\ MainIdle

\* ---- validateJson on its own
\* The values validateJson may be given: undefined, null, and the objects
\* with any of the keys it looks for, whose style member, when there is
\* one, is an object with any of the three facets or is no object.
JsonInputs ==
    {Undefined, Null}
    \cup {Obj(0, ks, "none", {}) : ks \in SUBSET (requiredKeys \ {"style"})}
    \cup {Obj(0, ks \cup {"style"}, "primitive", {}) : ks \in SUBSET (requiredKeys \ {"style"})}
    \cup {Obj(0, ks \cup {"style"}, "object", sks) :
              ks \in SUBSET (requiredKeys \ {"style"}), sks \in SUBSET styleKeys}

\* validateJson(json) returns a boolean or raises a TypeError.
ValidateCall ==
    /\ fnPc = "called"
    /\ fnPc' = "returned"
    /\ fnRet' = IF validateJsonThrows(fnArg)
                 THEN [threw |-> TRUE, val |-> FALSE]
                 ELSE [threw |-> FALSE, val |-> validateJson(fnArg)]
    /\ UNCHANGED fnArg
    /\ UNCHANGED <<retryVars, limVars, taskVars, extractVars, cacheVars, mainVars>>

ValidateInit ==
    /\ ProgramIdle
    /\ fnPc = "called"
    /\ fnArg \in JsonInputs
    /\ fnRet = <<>>

ValidateNext == ValidateCall

SpecValidate == ValidateInit /\ [][ValidateNext]_vars

\* ---- buildConversationThread on its own
\* A post as far as the thread builder reads it: id_str, the identifier
\* in_reply_to_status_id_str (0 when the post has none) and the time of
\* created_at.  A post is named by its place in the collection.
Posts == [id : 1 .. MaxIds, reply : 0 .. MaxIds, at : 1 .. MaxStamp]

\* The collections of n posts.
Collections(n) == [1 .. n -> Posts]

\* A slip that finds no post at all.
findNothing(tweets, id) == 0

\* tweets.find((t) => t.id_str === id): the first post with the identifier,
\* or undefined (0) when there is none.
find(tweets, id) ==
    IF \E i \in 1 .. Len(tweets) : tweets[i].id = id
    THEN CHOOSE i \in 1 .. Len(tweets) :
            /\ tweets[i].id = id
            /\ \A j \in 1 .. (i - 1) : tweets[j].id # id
    ELSE 0

\* A slip that takes no post for visited.
visitedHasNothing(visited, id) == FALSE

\* visited.has(currentTweet.id_str)
visitedHas(visited, id) == id \in visited

\* [...new Set(thread)]: every post once, at the place of its first
\* occurrence.
RECURSIVE dedupe(_)
dedupe(thread) ==
    IF thread = <<>> THEN <<>>
    ELSE LET front == dedupe(SubSeq(thread, 1, Len(thread) - 1))
             last == thread[Len(thread)]
         IN  IF \E i \in 1 .. Len(front) : front[i] = last
             THEN front
             ELSE Append(front, last)

\* One post put into a list sorted by time, behind the posts of the same
\* time (the sort is stable).
RECURSIVE insertByTime(_, _, _)
insertByTime(tweets, sorted, p) ==
    IF sorted = <<>> THEN <<p>>
    ELSE IF tweets[sorted[Len(sorted)]].at - tweets[p].at <= 0
         THEN Append(sorted, p)
         ELSE Append(insertByTime(tweets, SubSeq(sorted, 1, Len(sorted) - 1), p),
                     sorted[Len(sorted)])

RECURSIVE sortByCreatedAt(_, _)
\* A slip that leaves the thread in the order of the walk.
unsorted(tweets, thread) == thread

\* thread.sort((a, b) => time(a.created_at) - time(b.created_at))
sortByCreatedAt(tweets, thread) ==
    IF thread = <<>> THEN <<>>
    ELSE insertByTime(tweets,
                      sortByCreatedAt(tweets, SubSeq(thread, 1, Len(thread) - 1)),
                      thread[Len(thread)])

\* The call processThread(currentTweet) returns at once: there is no
\* current post, or its identifier was visited.
walkEnds(a, r) ==
    IF r.cur = 0 THEN TRUE ELSE visitedHas(r.visited, a.tweets[r.cur].id)

\* One call of processThread that goes on: the post is marked visited and
\* put at the front of the thread; with a reply link the post it names is
\* looked up and processThread is called for what was found.
ThreadVisit ==
    LET post == fnArg.tweets[fnRet.cur]
    IN  /\ fnPc = "called"
        /\ fnRet.walking
        /\ ~walkEnds(fnArg, fnRet)
        /\ fnRet' = [cur |-> IF post.reply # 0 THEN find(fnArg.tweets, post.reply) ELSE 0,
                      walking |-> post.reply # 0,
                      visited |-> fnRet.visited \cup {post.id},
                      thread |-> <<fnRet.cur>> \o fnRet.thread,
                      calls |-> fnRet.calls + 1]
        /\ UNCHANGED <<fnPc, fnArg>>
        /\ UNCHANGED <<retryVars, limVars, taskVars, extractVars, cacheVars, mainVars>>

\* The walk is over: the last call of processThread returns at once, or no
\* call was made for want of a reply link.  The thread is deduplicated,
\* sorted and rendered in that order.
ThreadFinish ==
    /\ fnPc = "called"
    /\ IF fnRet.walking THEN walkEnds(fnArg, fnRet) ELSE TRUE
    /\ fnPc' = "returned"
    /\ fnRet' = [fnRet EXCEPT
            !.walking = FALSE,
            !.calls = IF fnRet.walking THEN @ + 1 ELSE @,
            !.thread = sortByCreatedAt(fnArg.tweets, dedupe(@))]
    /\ UNCHANGED fnArg
    /\ UNCHANGED <<retryVars, limVars, taskVars, extractVars, cacheVars, mainVars>>

\* buildConversationThread(tweet, tweets, accountData) is entered as
\* chunkText calls it, for a collection and one of its posts: an empty
\* thread, nothing visited, processThread(tweet) about to be called.
ThreadInit ==
    /\ ProgramIdle
    /\ fnPc = "called"
    /\ \E n \in 1 .. MaxPosts : \E tw \in Collections(n) : \E k \in 1 .. n :
           fnArg = [tweets |-> tw, target |-> k]
    /\ fnRet = [cur |-> fnArg.target, walking |-> TRUE, visited |-> {},
                 thread |-> <<>>, calls |-> 0]

ThreadNext ==
    \/ ThreadVisit
    \/ ThreadFinish

SpecThread == ThreadInit /\ [][ThreadNext]_vars

\* ---- chunkText on its own, called twice for the same collection
\* const CHUNK_SIZE = 60000
CHUNK_SIZE == 60000

\* tweets.slice(i, i + 1000): the posts whose threads are built together.
batchSize == 1000

\* The lengths a rendered thread may have: a third and a half of the
\* budget, the budget itself, and one character more.
ThreadLengths == {CHUNK_SIZE \div 3, CHUNK_SIZE \div 2, CHUNK_SIZE, CHUNK_SIZE + 1}

\* A chunk is the concatenation of the threads of some posts, kept as the
\* list of these posts; its length is the sum of their lengths.
RECURSIVE textLength(_, _)
textLength(lens, chunk) ==
    IF chunk = <<>> THEN 0 ELSE lens[Head(chunk)] + textLength(lens, Tail(chunk))

\* The posts of the batch that starts behind post i.
batchOf(n, i) == Range(i + 1, Min(i + batchSize, n) + 1)

\* A slip that takes the threads in the order in which their builds end.
promiseAllByCompletion(batch, done) == done

\* await Promise.all(tweetChunk.map(...)): the threads in the order of the
\* posts of the batch, whatever the order in which the builds ended.
promiseAll(batch, done) == batch

\* A slip that puts a thread above the budget behind the current chunk.
pushWithCurrent(chunks, current, thread) ==
    [chunks |-> Append(chunks, Append(current, thread)), current |-> <<>>]

\* `chunks.push(thread); continue`: the thread is a chunk of its own and
\* the current chunk is left as it is.
pushAlone(chunks, current, thread) ==
    [chunks |-> Append(chunks, <<thread>>), current |-> current]

\* A slip that never closes the current chunk.
overflowsNever(currentLength, threadLength) == FALSE

\* `currentChunk.length + thread.length > CHUNK_SIZE`
overflows(currentLength, threadLength) == currentLength + threadLength > CHUNK_SIZE

\* The loop over the threads of a batch and the push of what is left of
\* the current chunk behind it.
RECURSIVE packThreads(_, _, _, _)
packThreads(lens, threads, current, chunks) ==
    IF threads = <<>>
    THEN IF textLength(lens, current) > 0 THEN Append(chunks, current) ELSE chunks
    ELSE LET thread == Head(threads)
         IN  IF lens[thread] > CHUNK_SIZE
             THEN LET pushed == pushAlone(chunks, current, thread)
                  IN  packThreads(lens, Tail(threads), pushed.current, pushed.chunks)
             ELSE IF overflows(textLength(lens, current), lens[thread])
             THEN packThreads(lens, Tail(threads), <<thread>>, Append(chunks, current))
             ELSE packThreads(lens, Tail(threads), Append(current, thread), chunks)

\* What chunkText writes before it returns: unchunked_data.json and one
\* file chunk_<index>.json per chunk.
chunkWrite(chunks) ==
    /\ unchunkedData' = TRUE
    /\ chunkFiles' = chunkFiles \cup (0 .. (Len(chunks) - 1))
    /\ UNCHANGED <<promptFiles, responseFile>>

\* chunkText up to its first await: with no post it writes its files and
\* returns no chunk; else the builds of the first batch are started.
ChunkEnter ==
    /\ fnPc = "called"
    /\ IF Len(fnArg.lengths) = 0
       THEN /\ fnPc' = "returned"
            /\ chunkWrite(<<>>)
       ELSE /\ fnPc' = "building"
            /\ UNCHANGED cacheVars
    /\ UNCHANGED <<fnArg, fnRet>>
    /\ UNCHANGED <<retryVars, limVars, taskVars, extractVars, mainVars>>

\* The build of the thread of one post of the batch ends.
ChunkThreadBuilt ==
    /\ fnPc = "building"
    /\ \E p \in 1 .. Len(fnArg.lengths) :
          /\ \A k \in 1 .. Len(fnRet.done) : fnRet.done[k] # p
          /\ \E k \in 1 .. Len(batchOf(Len(fnArg.lengths), fnRet.i)) :
                batchOf(Len(fnArg.lengths), fnRet.i)[k] = p
          /\ fnRet' = [fnRet EXCEPT !.done = Append(@, p)]
    /\ UNCHANGED <<fnPc, fnArg>>
    /\ UNCHANGED <<retryVars, limVars, taskVars, extractVars, cacheVars, mainVars>>

\* Every build of the batch has ended: the threads are packed into chunks;
\* behind the last batch the files are written and chunkText returns,
\* else the builds of the next batch are started.
ChunkBatch ==
    LET n == Len(fnArg.lengths)
        batch == batchOf(n, fnRet.i)
        chunks == packThreads(fnArg.lengths, promiseAll(batch, fnRet.done), <<>>,
                              fnRet.chunks)
    IN  /\ fnPc = "building"
        /\ Len(fnRet.done) = Len(batch)
        /\ IF fnRet.i + batchSize < n
           THEN /\ fnRet' = [fnRet EXCEPT !.i = @ + batchSize, !.done = <<>>,
                                          !.chunks = chunks]
                /\ UNCHANGED <<fnPc, cacheVars>>
           ELSE /\ fnRet' = [fnRet EXCEPT !.chunks = chunks]
                /\ fnPc' = "returned"
                /\ chunkWrite(chunks)
        /\ UNCHANGED fnArg
        /\ UNCHANGED <<retryVars, limVars, taskVars, extractVars, mainVars>>

\* chunkText is called once more for the same collection; what the first
\* call returned and the order in which its builds ended are kept aside.
ChunkAgain ==
    /\ fnPc = "returned"
    /\ fnRet.run = 1
    /\ fnPc' = "called"
    /\ fnRet' = [run |-> 2, i |-> 0, done |-> <<>>, chunks |-> <<>>,
                 first |-> fnRet.chunks, firstDone |-> fnRet.done]
    /\ UNCHANGED fnArg
    /\ UNCHANGED <<retryVars, limVars, taskVars, extractVars, cacheVars, mainVars>>

\* chunkText(tweets, accountData, archivePath) is called for a collection
\* of posts whose threads have any of the lengths.
ChunkInit ==
    /\ ProgramIdle
    /\ fnPc = "called"
    /\ \E n \in 0 .. MaxThreads : \E ls \in [1 .. n -> ThreadLengths] :
           fnArg = [lengths |-> ls]
    /\ fnRet = [run |-> 1, i |-> 0, done |-> <<>>, chunks |-> <<>>,
                first |-> <<>>, firstDone |-> <<>>]

ChunkNext ==
    \/ ChunkEnter
    \/ ChunkThreadBuilt
    \/ ChunkBatch
    \/ ChunkAgain

SpecChunk == ChunkInit /\ [][ChunkNext]_vars

\* ---- the direct messages in chunkText (src/unnamed/part_000)
\* dms.slice(i, i + 250)
dmBatchSize == 250

\* The two chunkText functions that take direct messages: the one whose
\* map callback is a block without a return, and the one whose callback
\* is the expression dm.text.
DmVariants == {"block", "expression"}

\* The text of message k, and what the map callback yields for it.
dmTextOf(k) == <<"text", ToString(k)>>
dmMapped(variant, k) == IF variant = "expression" THEN dmTextOf(k) ELSE <<"undefined">>

\* Array.prototype.join('\n'): the elements as strings, undefined as the
\* empty string, with a line feed between two neighbours.  A string is
\* kept as the list of its pieces.
joinLines(elements) ==
    LET pieces == [k \in 1 .. (2 * Len(elements) - 1) |->
                      IF k % 2 = 1 THEN elements[(k + 1) \div 2] ELSE <<"\n">>]
    IN  SelectSeq(pieces, LAMBDA piece : piece # <<"undefined">>)

\* The loop over the messages from message i + 1 on: one chunk per slice
\* of 250 messages, pushed behind the chunks there are.
RECURSIVE dmChunks(_, _, _, _)
dmChunks(variant, n, i, chunks) ==
    IF i >= n THEN chunks
    ELSE LET dmChunk == [k \in 1 .. (Min(i + dmBatchSize, n) - i) |-> i + k]
             dmText == joinLines([k \in 1 .. Len(dmChunk) |-> dmMapped(variant, dmChunk[k])])
         IN  dmChunks(variant, n, i + dmBatchSize, Append(chunks, dmText))

\* The rest of chunkText behind the loop over the posts: the message
\* chunks are pushed, the files are written and the list is returned.
MessagesChunk ==
    /\ fnPc = "called"
    /\ fnPc' = "returned"
    /\ fnRet' = dmChunks(fnArg.variant, fnArg.dms, 0, fnArg.postChunks)
    /\ chunkWrite(fnRet')
    /\ UNCHANGED fnArg
    /\ UNCHANGED <<retryVars, limVars, taskVars, extractVars, mainVars>>

\* chunkText has packed the posts into no chunk or into one and is given
\* dms messages, message k with a text of its own.
MessagesInit ==
    /\ ProgramIdle
    /\ fnPc = "called"
    /\ \E variant \in DmVariants : \E n \in 0 .. MaxMessages :
       \E posts \in {<<>>, << <<"thread">> >>} :
           fnArg = [variant |-> variant, dms |-> n, postChunks |-> posts]
    /\ fnRet = <<>>

MessagesNext == MessagesChunk

SpecMessages == MessagesInit /\ [][MessagesNext]_vars

\* ---- combineAndDeduplicate on its own
\* The two combineAndDeduplicate functions: src/scripts/folder2knowledge.js
\* lines 530-561 and src/unnamed/part_000 lines 598-630.
CombineVariants == {"scripts", "part_000"}

\* The lists of strings a result may report in a field, and the lists of
\* message examples, each example given by its content.
StringLists == {<<>>, <<"sarcastic">>, <<"curious", "sarcastic">>, <<"sarcastic", "sarcastic">>}
ExampleLists == {<<>>, <<"hello">>}

\* JSON.parse of the answer behind result i: strings are values, every
\* message example is an object of its own.
parsedResult(i, adjectives, others, examples) ==
    [bio |-> "bio",
     lore |-> others,
     adjectives |-> adjectives,
     topics |-> others,
     style |-> [all |-> adjectives, chat |-> others, post |-> adjectives],
     messageExamples |->
         [k \in 1 .. Len(examples) |-> [object |-> <<i, k>>, content |-> examples[k]]],
     postExamples |-> others]

\* The lists of n valid results.
ResultLists(n) ==
    {[i \in 1 .. n |-> parsedResult(i, pick[i][1], pick[i][2], pick[i][3])] :
        pick \in [1 .. n -> StringLists \X StringLists \X ExampleLists]}

\* The fields a result or a combined document holds lists in, by the
\* path of the field.
fieldOf(doc, path) ==
    IF Len(path) = 1 THEN doc[path[1]] ELSE doc[path[1]][path[2]]

\* A slip that takes the field of the first result only.
flatMapFirst(rs, path) == fieldOf(rs[1], path)

\* results.flatMap((result) => result.<field> || []): the lists of the
\* results one behind the other.
RECURSIVE flatMap(_, _)
flatMap(rs, path) ==
    IF rs = <<>> THEN <<>>
    ELSE flatMap(SubSeq(rs, 1, Len(rs) - 1), path)
             \o fieldOf(rs[Len(rs)], path)

\* A slip that keeps every occurrence.
allValues(list) == list

\* [...new Set(list)]: a string once per value, an object once per
\* object, at the place of the first occurrence.
uniqueValues(list) == dedupe(list)

\* The document returned for no result.  The empty string is a value of
\* its own, not an empty list.
emptyDocument(variant) ==
    IF variant = "scripts"
    THEN [bio |-> [type |-> "string", items |-> <<>>],
          lore |-> <<>>, adjectives |-> <<>>, topics |-> <<>>,
          style |-> [all |-> <<>>, chat |-> <<>>, post |-> <<>>],
          messageExamples |-> <<>>, postExamples |-> <<>>]
    ELSE [bio |-> [type |-> "string", items |-> <<>>],
          lore |-> <<>>, adjectives |-> <<>>, topics |-> <<>>,
          style |-> [all |-> <<>>, chat |-> <<>>, post |-> <<>>]]

combineAndDeduplicate(variant, rs) ==
    IF Len(rs) = 0 THEN emptyDocument(variant)
    ELSE [bio |-> [type |-> "array", items |-> [i \in 1 .. Len(rs) |-> rs[i].bio]],
          lore |-> uniqueValues(flatMap(rs, <<"lore">>)),
          adjectives |-> uniqueValues(flatMap(rs, <<"adjectives">>)),
          topics |-> uniqueValues(flatMap(rs, <<"topics">>)),
          style |-> [all |-> uniqueValues(flatMap(rs, <<"style", "all">>)),
                     chat |-> uniqueValues(flatMap(rs, <<"style", "chat">>)),
                     post |-> uniqueValues(flatMap(rs, <<"style", "post">>))],
          messageExamples |-> uniqueValues(flatMap(rs, <<"messageExamples">>)),
          postExamples |-> uniqueValues(flatMap(rs, <<"postExamples">>))]

\* The orders in which n results may arrive.
Orders(n) == {o \in [1 .. n -> 1 .. n] : \A i, j \in 1 .. n : o[i] = o[j] => i = j}

\* combineAndDeduplicate(validResults)
CombineCall ==
    /\ fnPc = "called"
    /\ fnPc' = "returned"
    /\ fnRet' = [first |-> combineAndDeduplicate(fnArg.variant, fnArg.results),
                 order |-> <<>>, second |-> <<>>]
    /\ UNCHANGED fnArg
    /\ UNCHANGED <<retryVars, limVars, taskVars, extractVars, cacheVars, mainVars>>

\* combineAndDeduplicate is called for the same results, arrived in
\* another or in the same order.
CombineReordered ==
    /\ fnPc = "returned"
    /\ fnPc' = "reordered"
    /\ \E o \in Orders(Len(fnArg.results)) :
          fnRet' = [fnRet EXCEPT
              !.order = o,
              !.second = combineAndDeduplicate(fnArg.variant,
                             [i \in 1 .. Len(fnArg.results) |-> fnArg.results[o[i]]])]
    /\ UNCHANGED fnArg
    /\ UNCHANGED <<retryVars, limVars, taskVars, extractVars, cacheVars, mainVars>>

CombineInit ==
    /\ ProgramIdle
    /\ fnPc = "called"
    /\ \E variant \in CombineVariants : \E n \in 0 .. MaxResults :
       \E rs \in ResultLists(n) :
           fnArg = [variant |-> variant, results |-> rs]
    /\ fnRet = <<>>

CombineNext ==
    \/ CombineCall
    \/ CombineReordered

SpecCombine == CombineInit /\ [][CombineNext]_vars

\* ---- one session that extracts one chunk: the prompts and the requests
\* setTimeout(resolve, 30000) of runChatCompletion
rateLimitPause == 30000

\* What the user may answer when asked for additional user info.
UserInfos == {"", "real name and handles"}

\* A slip that lets no backend pause on a rate-limit answer.
pausesNever(m) == FALSE

\* runChatCompletion tests response.status === 429 in its openai branch
\* only; in its claude branch the answer fails the test response.ok.
pausesOn429(m) == m = "openai"

\* prompt(name, username, basicUserInfo, chunk): the part of the prompt
\* that holds the user info is the third argument.
promptUserInfo(name, username, info, chunk) == info

\* resumeOrStartNewSession without a stored session: the user selects the
\* backend and enters the user info, which is stored in the project cache.
\* The variable basicUserInfo of the module is not assigned.
ChatSession ==
    /\ fnPc = "start"
    /\ fnPc' = "called"
    /\ fnRet' = [fnRet EXCEPT !.projectCache =
                     [model |-> fnArg.model, basicUserInfo |-> fnArg.info]]
    /\ UNCHANGED fnArg
    /\ UNCHANGED <<retryVars, limVars, taskVars, extractVars, cacheVars, mainVars>>

\* extractInfo(accountData, chunk, 0, archivePath, projectCache.model)
\* with an empty cache: the prompt is written to prompt_0.json and sent.
ChatCall ==
    LET userInfo == promptUserInfo("name", "username", fnRet.basicUserInfo, 0)
    IN  /\ fnPc = "called"
        /\ fnPc' = "running"
        /\ extractEnter(0, fnRet.projectCache.model)
        /\ fnRet' = [fnRet EXCEPT !.promptFile = {userInfo}, !.prompts = @ \cup {userInfo}]
        /\ UNCHANGED <<fnArg, snap>>
        /\ UNCHANGED <<limVars, taskVars, mainVars>>

\* The backend answers the open request with status 429.  The openai
\* branch sleeps and calls runChatCompletion again with the same messages;
\* the claude branch throws as for any answer that is not ok.
ChatRateLimited ==
    /\ fnPc = "running"
    /\ epc[0] = "awaiting"
    /\ rpc[0] = "calling"
    /\ IF pausesOn429(fnRet.projectCache.model)
       THEN /\ Len(fnRet.pauses) < MaxPauses
            /\ fnRet' = [fnRet EXCEPT !.pauses = Append(@, rateLimitPause),
                                      !.limited = TRUE]
            /\ backendCalls' = [backendCalls EXCEPT ![0] = @ + 1]
            /\ UNCHANGED <<epc, attempts, result, eout, cacheWrites, seen, snap>>
            /\ UNCHANGED <<retryVars, cacheVars>>
       ELSE /\ backendThrows(0, "HttpError")
            /\ fnRet' = [fnRet EXCEPT !.limited = TRUE]
    /\ UNCHANGED <<fnPc, fnArg>>
    /\ UNCHANGED <<limVars, taskVars, mainVars>>

\* The backend answers the open request with a body that parses to v.
ChatAnswers ==
    \E v \in SomeResponses(0) :
        /\ fnPc = "running"
        /\ backendReturns(0, v)
        /\ fnRet' = [fnRet EXCEPT !.others = TRUE]
        /\ UNCHANGED <<fnPc, fnArg>>
        /\ UNCHANGED <<limVars, taskVars, mainVars>>

\* The open request fails otherwise: another status that is not ok, or a
\* body that does not parse.
ChatFails ==
    \E e \in Errors :
        /\ fnPc = "running"
        /\ backendThrows(0, e)
        /\ fnRet' = [fnRet EXCEPT !.others = TRUE]
        /\ UNCHANGED <<fnPc, fnArg>>
        /\ UNCHANGED <<limVars, taskVars, mainVars>>

\* The pause of the retry wrapper is over: func builds the prompt again
\* and sends it.
ChatRetry ==
    /\ fnPc = "running"
    /\ backendRetry(0)
    /\ fnRet' = [fnRet EXCEPT !.prompts =
                     @ \cup {promptUserInfo("name", "username", fnRet.basicUserInfo, 0)}]
    /\ UNCHANGED <<fnPc, fnArg>>
    /\ UNCHANGED <<limVars, taskVars, mainVars>>

\* The wrapper has settled: extractInfo goes once more around its loop
\* with a new prompt, or settles.
ChatResume ==
    /\ fnPc = "running"
    /\ extractResume(0, fnRet.projectCache.model)
    /\ fnPc' = IF epc'[0] = "settled" THEN "returned" ELSE fnPc
    /\ fnRet' = [fnRet EXCEPT !.prompts =
                     @ \cup {promptUserInfo("name", "username", fnRet.basicUserInfo, 0)}]
    /\ UNCHANGED fnArg
    /\ UNCHANGED <<limVars, taskVars, mainVars>>

\* The process starts: `let basicUserInfo = ""`, no stored session, and a
\* user who will select a backend and enter some user info.
ChatInit ==
    /\ ProgramIdle
    /\ fnPc = "start"
    /\ \E m \in Models : \E info \in UserInfos : fnArg = [model |-> m, info |-> info]
    /\ fnRet = [basicUserInfo |-> "",
                projectCache |-> [model |-> "none", basicUserInfo |-> ""],
                promptFile |-> {}, prompts |-> {}, pauses |-> <<>>,
                limited |-> FALSE, others |-> FALSE]

ChatNext ==
    \/ ChatSession
    \/ ChatCall
    \/ ChatRateLimited
    \/ ChatAnswers
    \/ ChatFails
    \/ ChatRetry
    \/ ChatResume

SpecChat == ChatInit /\ [][ChatNext]_vars

\* ---- folder2knowledge: findAndProcessFiles on a folder tree
\* The two scripts: src/scripts/folder2knowledge.js lines 1-176, whose
\* processDocument returns the content of the file, and
\* src/unnamed/part_002, whose processDocument embeds the chunks of the
\* content and returns { document, chunks }.
FolderVariants == {"scripts", "part_002"}

\* An entry of the starting folder: a file, or a folder with some files.
\* A file is named by its path: the places of the entries that lead to it.
FolderEntries == {[dir |-> FALSE, files |-> 0]} \cup {[dir |-> TRUE, files |-> k] : k \in 0 .. MaxSubFiles}

\* What a destructuring reads where there is no such property.
noProperty == <<>>

\* processDocument(fullPath) for a readable file: what it returns, or that
\* it throws because the embeddings request failed.
processDocument(variant, apiOk, filePath) ==
    IF variant = "scripts"
    THEN [threw |-> FALSE, document |-> noProperty, chunks |-> noProperty]
    ELSE IF apiOk
         THEN [threw |-> FALSE, document |-> <<filePath>>, chunks |-> <<filePath>>]
         ELSE [threw |-> TRUE, document |-> noProperty, chunks |-> noProperty]

\* The loop of findAndProcessFiles over the files `from`.. of a folder
\* that holds files only: the documents, or that the loop threw
\* (processDocument threw, or chunks.push(...fileChunks) spread undefined).
RECURSIVE processFiles(_, _, _, _, _, _)
processFiles(variant, apiOk, dirPath, from, count, documents) ==
    IF from > count THEN [threw |-> FALSE, docs |-> documents]
    ELSE LET processed == processDocument(variant, apiOk, Append(dirPath, from))
         IN  IF processed.threw \/ processed.chunks = noProperty
             THEN [threw |-> TRUE, docs |-> <<>>]
             ELSE processFiles(variant, apiOk, dirPath, from + 1, count,
                               documents \o processed.document)

\* findAndProcessFiles(dirPath) for a folder that holds files only: the
\* catch block turns a throw into { docs: [], chks: [] }.
findAndProcessSubfolder(variant, apiOk, dirPath, count) ==
    processFiles(variant, apiOk, dirPath, 1, count, <<>>).docs

\* The loop of findAndProcessFiles over the entries `from`.. of the
\* starting folder.
RECURSIVE processEntries(_, _, _, _, _)
processEntries(variant, apiOk, entries, from, documents) ==
    IF from > Len(entries) THEN [threw |-> FALSE, docs |-> documents]
    ELSE IF entries[from].dir
    THEN processEntries(variant, apiOk, entries, from + 1,
             documents \o findAndProcessSubfolder(variant, apiOk, <<from>>,
                                                  entries[from].files))
    ELSE LET processed == processDocument(variant, apiOk, <<from>>)
         IN  IF processed.threw \/ processed.chunks = noProperty
             THEN [threw |-> TRUE, docs |-> <<>>]
             ELSE processEntries(variant, apiOk, entries, from + 1,
                                 documents \o processed.document)

findAndProcessFiles(variant, apiOk, entries) ==
    processEntries(variant, apiOk, entries, 1, <<>>).docs

\* main: findAndProcessFiles(path), and the documents are written to
\* knowledge.json.
FolderRun ==
    /\ fnPc = "called"
    /\ fnPc' = "returned"
    /\ fnRet' = [documents |-> findAndProcessFiles(fnArg.variant, fnArg.apiOk, fnArg.entries)]
    /\ UNCHANGED fnArg
    /\ UNCHANGED <<retryVars, limVars, taskVars, extractVars, cacheVars, mainVars>>

\* The script is started on a folder whose files are all readable, with
\* an embeddings API that works or fails.
FolderInit ==
    /\ ProgramIdle
    /\ fnPc = "called"
    /\ \E variant \in FolderVariants : \E apiOk \in BOOLEAN :
       \E n \in 0 .. MaxEntries : \E entries \in [1 .. n -> FolderEntries] :
           fnArg = [variant |-> variant, apiOk |-> apiOk, entries |-> entries]
    /\ fnRet = <<>>

FolderNext == FolderRun

SpecFolder == FolderInit /\ [][FolderNext]_vars

\* ---- extractInfo of the variant that asks a local Ollama server
\* How often the loop of one call is followed at most.
MaxOllamaAttempts == 5

\* `const requiredKeys = ['bio', 'lore', 'adjectives', 'topics', 'style']`
ollamaRequiredKeys == {"bio", "lore", "adjectives", "topics", "style"}

\* A parsed response that is no object and is truthy: a number, a text.
Primitive == [type |-> "primitive", src |-> 0, keys |-> {}, styleType |-> "none", styleKeys |-> {}]

\* What runOllamaCompletion may return: JSON.parse(content) as it is, also
\* null, 0, false or "" (Null stands for these), a truthy primitive, an
\* object with or without the keys asked for.
OllamaResponses ==
    {Obj(0, ollamaRequiredKeys, "object", styleKeys),
     Obj(0, ollamaRequiredKeys \ {"lore"}, "object", styleKeys),
     Obj(0, ollamaRequiredKeys, "primitive", {}),
     Primitive,
     Null}

\* `!result`
Falsy(v) == v.type \in {"undefined", "null", "nofile"}

\* validateJson of this variant raises only in `key in json.style`, when
\* all five keys are there and style is no object.
ollamaValidateJsonThrows(json) ==
    /\ ~Falsy(json)
    /\ json.type = "object"
    /\ ollamaRequiredKeys \subseteq json.keys
    /\ json.styleType # "object"

\* validateJson of this variant: false for a falsy value and for what is
\* no object; else the five keys and the three facets of style.
ollamaValidateJson(json) ==
    IF Falsy(json) \/ json.type # "object"
    THEN FALSE
    ELSE /\ ollamaRequiredKeys \subseteq json.keys
         /\ "style" \in json.keys
         /\ styleKeys \subseteq json.styleKeys

\* `while (!result || !validateJson(result) && attempts < maxAttempts)`
ollamaLoopAgain(res, n) ==
    Falsy(res) \/ (~ollamaValidateJson(res) /\ n < maxAttempts)

\* `if (!result || !validateJson(result)) throw new Error(...)`
ollamaAfterLoop(res) ==
    IF Falsy(res) \/ ~ollamaValidateJson(res)
    THEN Thrown("NoValidJson")
    ELSE Returned(res)

\* extractInfo(chunk, 0, archivePath) up to its first await: the cached
\* response when prompt and response are cached; else the prompt is written,
\* attempts becomes 1 and runOllamaCompletion is called under the wrapper.
OllamaCall ==
    /\ fnPc = "called"
    /\ IF fnRet.promptFile /\ ~Falsy(readCacheFile(fnRet.responseFile))
       THEN /\ fnPc' = "returned"
            /\ fnRet' = [fnRet EXCEPT !.out = Returned(readCacheFile(fnRet.responseFile))]
            /\ UNCHANGED retryVars
       ELSE /\ fnPc' = "awaiting"
            /\ fnRet' = [fnRet EXCEPT !.promptFile = TRUE, !.attempts = 1,
                                      !.requests = 1]
            /\ retryEnter(0)
    /\ UNCHANGED fnArg
    /\ UNCHANGED <<limVars, taskVars, extractVars, cacheVars, mainVars>>

\* The server answers and the text parses to v.
OllamaAnswers ==
    \E v \in OllamaResponses :
        /\ fnPc = "awaiting"
        /\ funcReturns(0, v)
        /\ fnRet' = [fnRet EXCEPT !.answers = @ \cup {v}]
        /\ UNCHANGED <<fnPc, fnArg>>
        /\ UNCHANGED <<limVars, taskVars, extractVars, cacheVars, mainVars>>

\* runOllamaCompletion throws: a status that is not ok, or a text from
\* which no JSON can be taken.
OllamaFails ==
    \E e \in Errors :
        /\ fnPc = "awaiting"
        /\ funcThrows(0, e)
        /\ UNCHANGED fnVars
        /\ UNCHANGED <<limVars, taskVars, extractVars, cacheVars, mainVars>>

\* The pause of the retry wrapper is over: the next request goes out.
OllamaRetry ==
    /\ fnPc = "awaiting"
    /\ retryWake(0)
    /\ fnRet' = [fnRet EXCEPT !.requests = @ + 1]
    /\ UNCHANGED <<fnPc, fnArg>>
    /\ UNCHANGED <<limVars, taskVars, extractVars, cacheVars, mainVars>>

\* The continuation of `await retryWithExponentialBackoff(...)`: the
\* assignment to result or the catch block, the loop condition and, when
\* the loop is left, the code behind it.
OllamaResume ==
    LET res == IF rout[0].kind = "value" THEN rout[0].val ELSE fnRet.result
    IN  /\ fnPc = "awaiting"
        /\ rpc[0] \in {"returned", "thrown"}
        /\ IF rout[0].kind = "error" /\ fnRet.attempts >= maxAttempts
           THEN \* `if (attempts >= maxAttempts) throw error`
                /\ fnPc' = "returned"
                /\ fnRet' = [fnRet EXCEPT !.result = res, !.out = Thrown(rout[0].err)]
                /\ retryRelease(0)
           ELSE IF ~Falsy(res) /\ ollamaValidateJsonThrows(res)
           THEN \* validateJson raises in the loop condition
                /\ fnPc' = "returned"
                /\ fnRet' = [fnRet EXCEPT !.result = res, !.out = Thrown("TypeError")]
                /\ retryRelease(0)
           ELSE IF ollamaLoopAgain(res, fnRet.attempts)
           THEN \* once more around the loop: attempts++, a new request
                /\ fnRet.attempts < MaxOllamaAttempts
                /\ fnRet' = [fnRet EXCEPT !.result = res, !.attempts = @ + 1,
                                          !.requests = @ + 1]
                /\ retryEnter(0)
                /\ UNCHANGED fnPc
           ELSE /\ fnPc' = "returned"
                /\ fnRet' = [fnRet EXCEPT
                        !.result = res,
                        !.out = ollamaAfterLoop(res),
                        !.responseFile = IF ollamaAfterLoop(res).kind = "value"
                                         THEN res ELSE @]
                /\ retryRelease(0)
        /\ UNCHANGED fnArg
        /\ UNCHANGED <<limVars, taskVars, extractVars, cacheVars, mainVars>>

\* extractInfo is called for chunk 0 with any content of the cache
\* directory: the prompt file, the response file, both or none.
OllamaInit ==
    /\ ProgramIdle
    /\ fnPc = "called"
    /\ fnArg = [chunkIndex |-> 0]
    /\ \E cachedPrompt \in BOOLEAN :
       \E cachedResponse \in {NoFile, Obj(0, ollamaRequiredKeys, "object", styleKeys)} :
           fnRet = [promptFile |-> cachedPrompt, responseFile |-> cachedResponse,
                    attempts |-> 0, requests |-> 0, result |-> Undefined,
                    answers |-> {}, out |-> NoOutcome]

OllamaNext ==
    \/ OllamaCall
    \/ OllamaAnswers
    \/ OllamaFails
    \/ OllamaRetry
    \/ OllamaResume

SpecOllama == OllamaInit /\ [][OllamaNext]_vars

\* ---- LlamaService: the queue of completion requests
\* How many completions are requested from the service.
MaxRequests == 3
\* How often the initialization of the model may fail before it succeeds.
MaxInitFailures == 1

Requests == 1 .. MaxRequests

\* A slip that lets every call of processQueue enter the loop.
busyNever(service) == FALSE

\* `this.isProcessing`, the first test of processQueue
busy(service) == service.isProcessing

\* `const message = this.messageQueue.shift()` and the call of
\* getCompletionResponse for it, up to its first await.
shiftMessage(service) ==
    [service EXCEPT !.messageQueue = Tail(@),
                    !.running = @ \cup {Head(service.messageQueue)},
                    !.started = Append(@, Head(service.messageQueue).id)]

\* processQueue up to its first await: it returns at once when the service
\* is processing, the queue is empty or the model is not initialized; else
\* isProcessing is set and the first message is taken.
processQueue(service) ==
    IF busy(service) \/ service.messageQueue = <<>> \/ ~service.modelInitialized
    THEN service
    ELSE shiftMessage([service EXCEPT !.isProcessing = TRUE])

\* A slip that leaves the loop behind the first message.
whileEnds(service) == [service EXCEPT !.isProcessing = FALSE]

\* `while (this.messageQueue.length > 0)` behind a settled message: the
\* next message is taken, or the loop ends and isProcessing is cleared.
whileQueue(service) ==
    IF service.messageQueue # <<>>
    THEN shiftMessage(service)
    ELSE [service EXCEPT !.isProcessing = FALSE]

\* message.resolve(response) or message.reject(error)
settleMessage(service, message, how) ==
    [service EXCEPT !.running = @ \ {message},
                    !.settled = [@ EXCEPT ![message.id] = @ + 1],
                    !.outcome = [@ EXCEPT ![message.id] = how]]

\* initializeModel fails: the model is deleted and initializeModel is
\* called again.
LlamaInitFails ==
    /\ fnPc = "initializing"
    /\ fnRet.initFailures < fnArg.failures
    /\ fnRet' = [fnRet EXCEPT !.initFailures = @ + 1]
    /\ UNCHANGED <<fnPc, fnArg>>
    /\ UNCHANGED <<retryVars, limVars, taskVars, extractVars, cacheVars, mainVars>>

\* initializeModel succeeds: `this.modelInitialized = true;
\* this.processQueue()`.
LlamaInitialized ==
    /\ fnPc = "initializing"
    /\ fnRet.initFailures = fnArg.failures
    /\ fnPc' = "ready"
    /\ fnRet' = processQueue([fnRet EXCEPT !.modelInitialized = TRUE])
    /\ UNCHANGED fnArg
    /\ UNCHANGED <<retryVars, limVars, taskVars, extractVars, cacheVars, mainVars>>

\* queueMessageCompletion (useGrammar: true) or queueTextCompletion
\* (useGrammar: false): the message is pushed and processQueue is called.
LlamaQueue ==
    \E useGrammar \in BOOLEAN :
        /\ fnRet.queued < MaxRequests
        /\ fnRet' = processQueue(
              [fnRet EXCEPT !.messageQueue =
                                Append(@, [id |-> fnRet.queued + 1,
                                           useGrammar |-> useGrammar]),
                            !.queued = @ + 1,
                            !.early = IF fnRet.modelInitialized THEN @ ELSE @ + 1])
        /\ UNCHANGED <<fnPc, fnArg>>
        /\ UNCHANGED <<retryVars, limVars, taskVars, extractVars, cacheVars, mainVars>>

\* getCompletionResponse returns: the text, the parsed JSON, or undefined
\* when the JSON of a grammar request did not parse (the error is logged in
\* its catch block); the message is resolved and the loop goes on.
LlamaCompletionReturns ==
    \E message \in fnRet.running :
    \E how \in IF message.useGrammar THEN {"resolved", "resolvedUndefined"}
               ELSE {"resolved"} :
        /\ fnRet' = whileQueue(settleMessage(fnRet, message, how))
        /\ UNCHANGED <<fnPc, fnArg>>
        /\ UNCHANGED <<retryVars, limVars, taskVars, extractVars, cacheVars, mainVars>>

\* getCompletionResponse throws (no response, no JSON string found): the
\* message is rejected and the loop goes on.
LlamaCompletionThrows ==
    \E message \in fnRet.running :
        /\ fnRet' = whileQueue(settleMessage(fnRet, message, "rejected"))
        /\ UNCHANGED <<fnPc, fnArg>>
        /\ UNCHANGED <<retryVars, limVars, taskVars, extractVars, cacheVars, mainVars>>

\* new LlamaService(): the fields as declared, initializeModel under way.
LlamaInit ==
    /\ ProgramIdle
    /\ fnPc = "initializing"
    /\ \E k \in 0 .. MaxInitFailures : fnArg = [failures |-> k]
    /\ fnRet = [messageQueue |-> <<>>, isProcessing |-> FALSE,
                modelInitialized |-> FALSE, running |-> {}, started |-> <<>>,
                queued |-> 0, early |-> 0, initFailures |-> 0,
                settled |-> [id \in Requests |-> 0],
                outcome |-> [id \in Requests |-> "pending"]]

LlamaNext ==
    \/ LlamaInitFails
    \/ LlamaInitialized
    \/ LlamaQueue
    \/ LlamaCompletionReturns
    \/ LlamaCompletionThrows

SpecLlama == LlamaInit /\ [][LlamaNext]_vars

\* A completion under way ends: the evaluation stops at the stop sequence
\* or at max_tokens, and the event loop runs the continuation.
SpecLlamaLive ==
    /\ LlamaInit
    /\ [][LlamaNext]_vars
    /\ WF_vars(LlamaCompletionReturns \/ LlamaCompletionThrows)

\* ======================================================================
\* Claims
\* ======================================================================
Submitted == 0 .. (nTasks - 1)

\* Tasks whose function was called and whose promise has not settled.
InFlight == {t \in TaskIds : tpc[t] = "running"}

Count(seq, v) == Cardinality({k \in 1 .. Len(seq) : seq[k] = v})

\* The entry a settled task is owed: its value, null if it threw.
Entry(t) == IF tout[t].kind = "error" THEN Null ELSE tout[t].val

\* C1: under limitConcurrency(tasks, N), N >= 1, the tasks started and not
\* yet settled never number more than N (nor do the tasks held in
\* runningTasks), whatever the order in which tasks settle or fail.
C1_AtMostNInFlight ==
    /\ Cardinality(InFlight) <= concurrencyLimit
    /\ Cardinality(runningTasks) <= concurrencyLimit
    /\ InFlight \subseteq runningTasks

\* The ceiling is reached while tasks still wait and one task has failed.
C1_Witness ==
    /\ concurrencyLimit = 2
    /\ Cardinality(InFlight) = 2
    /\ queue # <<>>
    /\ \E t \in Submitted : tout[t].kind = "error"

\* C2: limitConcurrency calls every submitted task exactly once; when it
\* returns, results has one entry per task, the task's value if it resolved
\* and null if it threw, in completion order.
C2_EveryTaskOnce ==
    /\ \A t \in TaskIds : invoked[t] <= 1
    /\ lc = "returned" =>
          /\ Len(results) = nTasks
          /\ \A t \in Submitted :
                /\ invoked[t] = 1
                /\ tout[t].kind # "none"
                /\ Count(results, Entry(t))
                     = Cardinality({u \in Submitted : Entry(u) = Entry(t)})

\* It has returned with a null for a task that threw and with two values in
\* the reverse of the submission order.
C2_Witness ==
    /\ lc = "returned"
    /\ \E t \in Submitted : tout[t].kind = "error"
    /\ \E j, k \in 1 .. Len(results) :
          /\ j < k
          /\ results[j].type = "object"
          /\ results[k].type = "object"
          /\ results[j].src > results[k].src

\* C3: when func throws on its first K calls, K <= MAX_RETRIES, and then
\* succeeds, the wrapper returns that value after K + 1 calls, and the pause
\* before the k-th retry was RETRY_DELAY * k (so the pauses increase).
C3_RetryThenSuccess ==
    \A t \in TaskIds :
        /\ funcLast[t].kind = "value" => rpc[t] = "returned"
        /\ rpc[t] = "returned" =>
              /\ rout[t] = funcLast[t]
              /\ rout[t].kind = "value"
              /\ throws[t] <= MAX_RETRIES
              /\ calls[t] = throws[t] + 1
              /\ Len(delays[t]) = throws[t]
        /\ \A k \in 1 .. Len(delays[t]) :
              /\ delays[t][k] = RETRY_DELAY * k
              /\ k > 1 => delays[t][k] > delays[t][k - 1]

\* The wrapper has returned after MAX_RETRIES failed calls.
C3_Witness ==
    /\ rpc[0] = "returned"
    /\ throws[0] = MAX_RETRIES
    /\ rout[0].val = ValidResult(0)

\* C4: when func throws on every call the wrapper makes MAX_RETRIES + 1
\* calls and rethrows the last error; it never makes more calls than that
\* and never returns a value without a call that succeeded.
C4_RetriesExhausted ==
    \A t \in TaskIds :
        /\ calls[t] <= MAX_RETRIES + 1
        /\ rpc[t] = "thrown" =>
              /\ calls[t] = MAX_RETRIES + 1
              /\ throws[t] = calls[t]
              /\ funcLast[t].kind = "error"
              /\ rout[t] = funcLast[t]
        /\ (throws[t] = calls[t] /\ calls[t] = MAX_RETRIES + 1) => rpc[t] = "thrown"
        /\ rpc[t] = "returned" => throws[t] < calls[t]

\* Every call threw and the wrapper has rethrown.
C4_Witness ==
    /\ rpc[0] = "thrown"
    /\ throws[0] = MAX_RETRIES + 1
    /\ rout[0].kind = "error"

\* C5: in the resilient variant, an extractInfo call whose backend answers
\* every request with a structurally invalid object makes 3 attempts and
\* then returns null.
C5_InvalidObjectsGiveNull ==
    \A t \in TaskIds :
        /\ attempts[t] <= maxAttempts
        /\ (epc[t] = "settled" /\ seen[t] = {"invalid"}) =>
              /\ eout[t] = Returned(Null)
              /\ attempts[t] = maxAttempts
              /\ backendCalls[t] = maxAttempts

\* C6: every element of the list main passes to combineAndDeduplicate
\* satisfies validateJson, also a result served from the cache and a result
\* obtained after an earlier attempt failed.
C6_OnlyValidResultsAggregated ==
    \A k \in 1 .. Len(validResults) :
        /\ ~validateJsonThrows(validResults[k])
        /\ validateJson(validResults[k])

\* The list was built in a resumed run from a result read from the cache
\* (no attempt was made) and a result of a second or third attempt, while a
\* third chunk failed and gave nothing.
C6_Witness ==
    /\ mpc = "written"
    /\ resumedAt >= 0
    /\ \E t, u \in Submitted :
          /\ epc[t] = "settled" /\ attempts[t] = 0 /\ tout[t] = Returned(ValidResult(t))
          /\ attempts[u] >= 2 /\ tout[u] = Returned(ValidResult(u))
          /\ Count(validResults, ValidResult(t)) = 1
          /\ Count(validResults, ValidResult(u)) = 1
    /\ Len(validResults) < Len(results)

\* C7: extractInfo(i, model) called when prompt_<i>.json and
\* prompt_response_<i>_<model>.json both exist returns the cached response
\* with no request to the backend and no cache write; when the response file
\* of that backend is missing (whatever is cached for another backend) the
\* call is not skipped.
C7_CacheHitSkipsBackend ==
    \A t \in TaskIds :
        epc[t] # "idle" =>
            IF snap[t].prompt /\ snap[t].response # NoFile
            THEN /\ epc[t] = "settled"
                 /\ eout[t] = Returned(snap[t].response)
                 /\ backendCalls[t] = 0
                 /\ cacheWrites[t] = 0
            ELSE /\ backendCalls[t] >= 1
                 /\ cacheWrites[t] >= 1

\* A call for claude was served from the cache although the response of
\* openai for the same chunk is not cached.
C7_Witness ==
    /\ epc[0] = "settled"
    /\ snap[0].model = "claude"
    /\ snap[0].prompt
    /\ snap[0].response = ValidResult(0)
    /\ eout[0] = Returned(ValidResult(0))
    /\ responseFile[<<0, "openai">>] = NoFile
    /\ backendCalls[0] = 0

\* C8: when main starts with a stored session at currentChunk k and the
\* user continues, no request is sent for a chunk below k (its task resolves
\* with null) and extractInfo is called for every chunk from k on.
C8_ResumeSkipsBelowCursor ==
    resumedAt >= 0 =>
        \A t \in TaskIds :
            /\ t < resumedAt =>
                  /\ backendCalls[t] = 0
                  /\ epc[t] = "idle"
                  /\ invoked[t] = 1 => tout[t] = Returned(Null)
            /\ (t >= resumedAt /\ invoked[t] = 1) => epc[t] # "idle"
            /\ (t >= resumedAt /\ t < nChunks /\ lc = "returned") => epc[t] = "settled"

\* A run resumed at chunk 2 has skipped chunks 0 and 1 and has a request
\* open for chunk 2.
C8_Witness ==
    /\ resumedAt = 2
    /\ tout[0] = Returned(Null)
    /\ tout[1] = Returned(Null)
    /\ backendCalls[0] = 0
    /\ backendCalls[1] = 0
    /\ epc[2] = "awaiting"
    /\ backendCalls[2] >= 1

\* C9: while the chunks of a run are extracted, no step lowers the session
\* cursor, in memory or in project_cache.json.
C9_CursorNeverRegresses ==
    [][(mpc = "extracting" /\ mpc' = "extracting") =>
          /\ projectCache'.currentChunk >= projectCache.currentChunk
          /\ diskCache'.currentChunk >= diskCache.currentChunk]_vars

\* C10: every chunk below the persisted cursor has finished extraction (its
\* extractInfo call has settled, in this run or an earlier one).
C10_PersistedCursorCoversFinished ==
    \A i \in TaskIds : i < diskCache.currentChunk => i \in finished

\* C11: the persisted completed flag turns true only when the chunks were
\* extracted and aggregated and the character file was written; a run that
\* ends in an error leaves the persisted flag false.
C11_ErrorLeavesNotCompleted ==
    mpc = "failed" => ~diskCache.completed

\* C12: whenever the task of a chunk that went through extraction settles,
\* with a result, with null or with an error, the cursor has been set to the
\* index after the chunk and the project cache has been saved with it.
C12_CursorSetOnEveryCompletion ==
    [][\A t \in TaskIds :
          (tpc[t] = "running" /\ tpc'[t] = "settled") =>
              /\ projectCache'.currentChunk = t + 1
              /\ diskCache' = projectCache']_vars

\* The step runs clearGenerationCache: the user discards a stored session,
\* or main has completed.
ClearStep ==
    \/ mpc = "start" /\ mpc' = "session" /\ resumedAt' = -2
    \/ mpc = "done" /\ mpc' = "cleared"

\* C13: clearGenerationCache, on discard and after completion, removes every
\* prompt_response_* file and leaves every chunk_<i>.json, every
\* prompt_<i>.json, unchunked_data.json and project_cache.json as they were.
C13_ClearRemovesOnlyResponses ==
    [][ClearStep =>
          /\ \A k \in TaskIds \X Models : responseFile'[k] = NoFile
          /\ promptFiles' = promptFiles
          /\ chunkFiles' = chunkFiles
          /\ unchunkedData' = unchunkedData
          /\ diskCache' = diskCache]_vars

\* The second start has just discarded the session of a first run that had
\* extracted a chunk at the first request and cached its response: no
\* response file is left, while the prompt and chunk files,
\* unchunked_data.json and the stored project cache are still there.
C13_Witness ==
    /\ mpc = "session"
    /\ resumedAt = -2
    /\ faults = 0
    /\ diskCache.currentChunk >= 1
    /\ ~diskCache.completed
    /\ promptFiles # {}
    /\ chunkFiles # {}
    /\ unchunkedData
    /\ \A k \in TaskIds \X Models : responseFile[k] = NoFile

\* C14: when a stored session exists and the user declines to continue,
\* resumeOrStartNewSession leaves no cached response and returns a session
\* with currentChunk 0, totalChunks 0 and completed false; in the run that
\* follows no chunk is skipped or served from the cache: every chunk whose
\* task is called sends a request to the backend, and when the limiter has
\* returned that is every chunk.
C14_DiscardRestartsFromZero ==
    resumedAt = -2 =>
        /\ mpc = "session" =>
              /\ projectCache.currentChunk = 0
              /\ projectCache.totalChunks = 0
              /\ ~projectCache.completed
              /\ \A k \in TaskIds \X Models : responseFile[k] = NoFile
        /\ \A t \in TaskIds :
              /\ invoked[t] = 1 => (epc[t] # "idle" /\ attempts[t] >= 1)
              /\ epc[t] = "awaiting" => backendCalls[t] >= 1
              /\ (lc = "returned" /\ t < nChunks) => attempts[t] >= 1

\* After a discard the limiter has returned for an archive of at least two
\* chunks, each extracted with a request of this run.
C14_Witness ==
    /\ resumedAt = -2
    /\ lc = "returned"
    /\ nChunks >= 2
    /\ \A t \in 0 .. (nChunks - 1) :
          /\ attempts[t] >= 1
          /\ tout[t] = Returned(ValidResult(t))

\* C15: in every reachable state each response file of the cache holds a
\* result that validateJson accepts; no failed or invalid attempt leaves a
\* response file behind.
C15_CachedResponsesAreValid ==
    \A k \in TaskIds \X Models :
        responseFile[k] # NoFile =>
            /\ ~validateJsonThrows(responseFile[k])
            /\ validateJson(responseFile[k])

\* A call that got an invalid answer and a failed request before a valid
\* answer has settled and cached that answer, and nothing else is cached.
C15_Witness ==
    /\ epc[0] = "settled"
    /\ {"invalid", "throw", "valid"} \subseteq seen[0]
    /\ attempts[0] >= 2
    /\ snap[0].model = "openai"
    /\ responseFile[<<0, "openai">>] = ValidResult(0)
    /\ \A k \in (TaskIds \X Models) \ {<<0, "openai">>} : responseFile[k] = NoFile

\* C16: validateJson accepts an object exactly when bio, lore, adjectives,
\* topics and style are present and style holds all, chat and post;
\* messageExamples and postExamples need not be there.
C16_FiveFieldsAndThreeFacets ==
    (fnPc = "returned" /\ fnArg.type = "object") =>
        ((~fnRet.threw /\ fnRet.val) <=>
            /\ {"bio", "lore", "adjectives", "topics", "style"} \subseteq fnArg.keys
            /\ fnArg.styleType = "object"
            /\ {"all", "chat", "post"} \subseteq fnArg.styleKeys)

\* The chunks of the run whose task gave a result.
Succeeded == {t \in 0 .. (nChunks - 1) : tout[t].kind = "value" /\ tout[t].val # Null}

ThreadPosts == {fnRet.thread[i] : i \in 1 .. Len(fnRet.thread)}
ThreadIds == [i \in 1 .. Len(fnRet.thread) |-> fnArg.tweets[fnRet.thread[i]].id]

\* C18: buildConversationThread returns after at most one call of
\* processThread per post and one more, and no identifier occurs twice in
\* the thread it renders, whatever the collection: self-replies, reply
\* loops and posts that share an identifier included.
C18_ThreadHasNoDuplicateIds ==
    fnPc # "idle" =>
        /\ fnRet.calls <= Len(fnArg.tweets) + 1
        /\ Len(fnRet.thread) <= Len(fnArg.tweets)
        /\ fnPc = "returned" =>
              \A i, j \in 1 .. Len(fnRet.thread) : ThreadIds[i] = ThreadIds[j] => i = j

\* A thread of two posts was returned for a collection of three posts in
\* which the target and its parent reply to each other and a third post
\* shares the identifier of the target.
C18_Witness ==
    /\ fnPc = "returned"
    /\ Len(fnArg.tweets) = 3
    /\ Len(fnRet.thread) = 2
    /\ \E p \in ThreadPosts \ {fnArg.target} :
          /\ fnArg.tweets[fnArg.target].reply = fnArg.tweets[p].id
          /\ fnArg.tweets[p].reply = fnArg.tweets[fnArg.target].id
    /\ \E q \in (1 .. 3) \ ThreadPosts : fnArg.tweets[q].id = fnArg.tweets[fnArg.target].id

\* C19: the posts of the thread are rendered in ascending order of
\* created_at: of two posts the one with the earlier time comes first.
C19_ThreadInTimeOrder ==
    fnPc = "returned" =>
        \A i, j \in 1 .. Len(fnRet.thread) :
            fnArg.tweets[fnRet.thread[i]].at < fnArg.tweets[fnRet.thread[j]].at => i < j

\* A thread of three posts with three different times was returned with
\* the target, which the walk met first and put last, rendered first.
C19_Witness ==
    /\ fnPc = "returned"
    /\ Len(fnRet.thread) = 3
    /\ fnRet.thread[1] = fnArg.target
    /\ fnArg.tweets[fnRet.thread[1]].at < fnArg.tweets[fnRet.thread[2]].at
    /\ fnArg.tweets[fnRet.thread[2]].at < fnArg.tweets[fnRet.thread[3]].at

\* The post a reply link to the identifier id resolves to inside the
\* collection: the first post that carries it, as a set of one post, or of
\* none when no post carries it.
Resolved(id) ==
    {i \in 1 .. Len(fnArg.tweets) :
        /\ fnArg.tweets[i].id = id
        /\ \A j \in 1 .. (i - 1) : fnArg.tweets[j].id # id}

\* The posts named by the reply links of the posts of S.
Parents(S) ==
    UNION {IF fnArg.tweets[p].reply = 0 THEN {} ELSE Resolved(fnArg.tweets[p].reply) :
              p \in S}

\* The posts of S and their ancestors up to k reply links away.
RECURSIVE Ancestors(_, _)
Ancestors(S, k) == IF k = 0 THEN S ELSE Ancestors(S \cup Parents(S), k - 1)

\* The target and every ancestor reachable from it by reply links that
\* resolve inside the collection.
ReachablePosts == Ancestors({fnArg.target}, Len(fnArg.tweets))

\* No two posts of the collection carry the same identifier.
UniqueIds ==
    \A i, j \in 1 .. Len(fnArg.tweets) :
        fnArg.tweets[i].id = fnArg.tweets[j].id => i = j

\* C20 as stated: the returned thread is made of exactly the target and
\* the ancestors reachable from it by reply links that resolve inside the
\* collection.
C20_ThreadIsAllReachableAncestors ==
    fnPc = "returned" => ThreadPosts = ReachablePosts

\* C20: the returned thread holds the target and only ancestors reachable
\* from it by reply links that resolve inside the collection; a reply link
\* of a member that resolves inside the collection names an identifier the
\* thread holds, so the walk goes on until a link is missing, names no post
\* of the collection, or names an identifier already visited; when the
\* identifiers of the collection are unique the thread is exactly the
\* target and its reachable ancestors; a target without a reply link, or
\* with one that names no post of the collection, gives a one-post thread.
C20_ThreadIsWalkedAncestors ==
    fnPc = "returned" =>
        /\ fnArg.target \in ThreadPosts
        /\ ThreadPosts \subseteq ReachablePosts
        /\ \A p \in ThreadPosts : \A q \in Parents({p}) :
              \E i \in 1 .. Len(fnRet.thread) : ThreadIds[i] = fnArg.tweets[q].id
        /\ UniqueIds => ThreadPosts = ReachablePosts
        /\ Parents({fnArg.target}) = {} => fnRet.thread = <<fnArg.target>>

\* A thread of two posts was returned whose walk stopped at a parent that
\* has a reply link to an identifier no post of the collection carries.
C20_Witness ==
    /\ fnPc = "returned"
    /\ Len(fnRet.thread) = 2
    /\ \E p \in ThreadPosts \ {fnArg.target} :
          /\ p \in Resolved(fnArg.tweets[fnArg.target].reply)
          /\ fnArg.tweets[p].reply # 0
          /\ Resolved(fnArg.tweets[p].reply) = {}

\* The posts whose thread is part of a chunk of the list.
ChunkPosts(chunks, c) == {chunks[c][k] : k \in 1 .. Len(chunks[c])}

C22_OversizeThreadStandsAlone ==
    fnPc = "returned" =>
        \A p \in 1 .. Len(fnArg.lengths) :
            fnArg.lengths[p] > CHUNK_SIZE =>
                /\ \E c \in 1 .. Len(fnRet.chunks) : fnRet.chunks[c] = <<p>>
                /\ \A c, e \in 1 .. Len(fnRet.chunks) :
                      (p \in ChunkPosts(fnRet.chunks, c) /\ p \in ChunkPosts(fnRet.chunks, e))
                          => (c = e /\ fnRet.chunks[c] = <<p>>)

\* A thread above the budget met between two short threads was returned
\* as the first chunk, ahead of the chunk that holds the two short ones.
C22_Witness ==
    /\ fnPc = "returned"
    /\ Len(fnArg.lengths) = 3
    /\ fnArg.lengths[2] > CHUNK_SIZE
    /\ fnRet.chunks = <<(<<2>>), <<1, 3>>>>

\* The number of slices of 250 that n messages make.
DmBatches(n) == (n + dmBatchSize - 1) \div dmBatchSize

\* C23: n direct messages give ceil(n / 250) chunks behind the post
\* chunks, and chunk b holds, in order and one per line, the texts of the
\* messages 250 (b - 1) + 1 .. 250 b of the list.
C23_MessageChunksHoldTheTexts ==
    fnPc = "returned" =>
        /\ Len(fnRet) = Len(fnArg.postChunks) + DmBatches(fnArg.dms)
        /\ SubSeq(fnRet, 1, Len(fnArg.postChunks)) = fnArg.postChunks
        /\ \A b \in 1 .. DmBatches(fnArg.dms) :
              LET from == dmBatchSize * (b - 1)
                  size == Min(dmBatchSize, fnArg.dms - from)
              IN  fnRet[Len(fnArg.postChunks) + b] =
                      [k \in 1 .. (2 * size - 1) |->
                          IF k % 2 = 1 THEN <<"text", ToString(from + (k + 1) \div 2)>>
                          ELSE <<"\n">>]

\* The fields of strings, all fields of lists, and what a list holds.
StringFields ==
    {<<"lore">>, <<"adjectives">>, <<"topics">>, <<"style", "all">>,
     <<"style", "chat">>, <<"style", "post">>, <<"postExamples">>}
ListFields == StringFields \cup {<<"messageExamples">>}
Elements(list) == {list[k] : k \in 1 .. Len(list)}

\* What the results report in a field.
Reported(path) ==
    UNION {Elements(fieldOf(fnArg.results[i], path)) : i \in 1 .. Len(fnArg.results)}

\* C24: every string reported by a result in a field is in that field of
\* the combined document exactly once, and the field holds nothing else.
C24_ReportedStringsOnce ==
    (fnPc = "returned" /\ Len(fnArg.results) > 0) =>
        \A path \in StringFields :
            /\ Elements(fieldOf(fnRet.first, path)) = Reported(path)
            /\ \A v \in Reported(path) : Count(fieldOf(fnRet.first, path), v) = 1

\* Two results both report sarcastic among the adjectives, one of them
\* twice, and the combined document was returned.
C24_Witness ==
    /\ fnPc = "returned"
    /\ Len(fnArg.results) = 2
    /\ fnArg.results[1].adjectives = <<"sarcastic", "sarcastic">>
    /\ fnArg.results[2].adjectives = <<"curious", "sarcastic">>
    /\ fnRet.first.adjectives = <<"sarcastic", "curious">>

\* C25: no two message examples of the combined document have the same
\* content.
C25_EqualExamplesOnce ==
    (fnPc = "returned" /\ Len(fnArg.results) > 0) =>
        \A i, j \in 1 .. Len(fnRet.first.messageExamples) :
            fnRet.first.messageExamples[i].content = fnRet.first.messageExamples[j].content
                => i = j

\* The fields of a document, those of its style member included.
FieldsOf(doc) ==
    {<<f>> : f \in DOMAIN doc} \cup {<<"style", f>> : f \in DOMAIN doc.style}

\* C26: the document returned for no result has every field the document
\* for some results has, and each of them is empty.
C26_EmptyListGivesEmptyDocument ==
    (fnPc = "returned" /\ Len(fnArg.results) = 0) =>
        /\ FieldsOf(fnRet.first) =
               (ListFields \cup {<<"bio">>, <<"style">>})
        /\ fnRet.first.bio.items = <<>>
        /\ \A path \in ListFields \cap FieldsOf(fnRet.first) :
              fieldOf(fnRet.first, path) = <<>>

\* C27: the combined documents of the same results in two orders hold the
\* same elements in every field of lists.
C27_OrderDoesNotChangeTheSets ==
    (fnPc = "reordered" /\ Len(fnArg.results) > 0) =>
        \A path \in ListFields :
            Elements(fieldOf(fnRet.first, path)) = Elements(fieldOf(fnRet.second, path))

\* Two results that report different adjectives were combined in both
\* orders, and the lists of adjectives came out in different orders.
C27_Witness ==
    /\ fnPc = "reordered"
    /\ Len(fnArg.results) = 2
    /\ fnRet.order = <<2, 1>>
    /\ fnRet.first.adjectives # fnRet.second.adjectives
    /\ Len(fnRet.first.messageExamples) = 2

\* The extraction has met nothing but rate-limit answers so far.
OnlyRateLimited == fnPc \in {"running", "returned"} /\ ~fnRet.others

\* No retry of the wrapper and no attempt of extractInfo was consumed, and
\* the first request of the first attempt is still open.
NothingConsumed ==
    /\ epc[0] = "awaiting"
    /\ rpc[0] = "calling"
    /\ attempts[0] = 1
    /\ retries[0] = MAX_RETRIES
    /\ calls[0] = 1
    /\ throws[0] = 0
    /\ delays[0] = <<>>

\* C28 as stated: whatever the backend, while it answers nothing but 429
\* the extraction pauses for the fixed time and asks again, and consumes
\* no retry and no attempt.
C28_RateLimitConsumesNothing ==
    OnlyRateLimited =>
        /\ NothingConsumed
        /\ \A k \in 1 .. Len(fnRet.pauses) : fnRet.pauses[k] = rateLimitPause

\* C28: with the openai backend, while the backend answers nothing but
\* 429 the extraction pauses for the fixed time and asks again, and
\* consumes no retry and no attempt; with the claude backend a 429 answer
\* makes the request fail, no fixed pause is made, and the failure is
\* counted by the retry wrapper and by the attempts of extractInfo, so
\* that the extraction ends.
C28_OpenaiRateLimitConsumesNothing ==
    OnlyRateLimited =>
        IF fnRet.projectCache.model = "openai"
        THEN /\ NothingConsumed
             /\ \A k \in 1 .. Len(fnRet.pauses) : fnRet.pauses[k] = rateLimitPause
             /\ fnRet.limited => Len(fnRet.pauses) >= 1
        ELSE /\ fnRet.pauses = <<>>
             /\ fnRet.limited =>
                   \/ throws[0] >= 1
                   \/ attempts[0] > 1
                   \/ (epc[0] = "settled" /\ eout[0].kind = "error")

\* The openai backend has answered 429 as often as the bound allows and
\* the first request of the first attempt is still open.
C28_Witness ==
    /\ OnlyRateLimited
    /\ fnRet.projectCache.model = "openai"
    /\ Len(fnRet.pauses) = MaxPauses
    /\ backendCalls[0] = MaxPauses + 1
    /\ NothingConsumed

\* C29: the user info of every prompt sent, and of the prompt written to
\* the cache, is the basicUserInfo stored with the session.
C29_PromptsCarryTheSessionUserInfo ==
    fnPc \in {"running", "returned"} =>
        /\ fnRet.prompts = {fnRet.projectCache.basicUserInfo}
        /\ fnRet.promptFile = {fnRet.projectCache.basicUserInfo}

\* The files of the folder tree, by their paths.
FilesOfTree ==
    {<<e>> : e \in {x \in 1 .. Len(fnArg.entries) : ~fnArg.entries[x].dir}}
    \cup UNION {{<<e, f>> : f \in 1 .. fnArg.entries[e].files} :
                  e \in {x \in 1 .. Len(fnArg.entries) : fnArg.entries[x].dir}}

\* C30: when the embeddings API works, the documents written to
\* knowledge.json are the files of the folder tree, one entry per file.
C30_OneDocumentPerFile ==
    (fnPc = "returned" /\ fnArg.apiOk) =>
        /\ Len(fnRet.documents) = Cardinality(FilesOfTree)
        /\ Elements(fnRet.documents) = FilesOfTree

\* The chunks whose results are in the list given to combineAndDeduplicate.
Combined == {validResults[k].src : k \in 1 .. Len(validResults)}

\* C31: after a resume from a cursor above 0 the list given to
\* combineAndDeduplicate holds, next to the results of the chunks extracted
\* after the resume, the cached result of every chunk below the cursor.
C31_ResumeCombinesCachedResults ==
    (mpc \in {"written", "done", "cleared"} /\ resumedAt >= 1) =>
        \A i \in 0 .. resumedAt - 1 :
            responseFile[<<i, projectCache.model>>] # NoFile => i \in Combined

\* C32: a session stored with completed = true is not offered to the user
\* for continuation: the next start makes a new session at chunk 0.
C32_CompletedSessionIsNotContinued ==
    [][(mpc = "start" /\ mpc' = "session" /\ diskCache.completed) =>
          /\ resumedAt' < 0
          /\ projectCache'.currentChunk = 0
          /\ ~projectCache'.completed]_vars

\* C33: whenever project_cache.json holds completed = true, its cursor
\* equals its number of chunks.
C33_CompletedCursorIsTotal ==
    diskCache.completed => diskCache.currentChunk = diskCache.totalChunks

\* C34: when an attempt of extractInfo ends because the retry wrapper threw
\* and fewer than 3 attempts were made, the prompt is issued again; an error
\* leaves extractInfo only on the third failed attempt, also when no earlier
\* attempt returned a result.
C34_ErrorEscapesOnlyOnThirdAttempt ==
    [][\A t \in TaskIds :
          (epc[t] = "awaiting" /\ rpc[t] = "thrown" /\ rpc'[t] # "thrown") =>
              IF attempts[t] < maxAttempts
              THEN /\ epc'[t] = "awaiting"
                   /\ attempts'[t] = attempts[t] + 1
                   /\ backendCalls'[t] = backendCalls[t] + 1
              ELSE /\ epc'[t] = "settled"
                   /\ eout'[t] = Thrown(rout[t].err)]_vars

\* C35: without rate-limit answers one extractInfo call sends at most
\* 3 * (MAX_RETRIES + 1) requests to the backend, and then returns a valid
\* result, returns null, or throws.
C35_BackendCallsBounded ==
    \A t \in TaskIds :
        /\ backendCalls[t] <= maxAttempts * (MAX_RETRIES + 1)
        /\ epc[t] = "settled" =>
              \/ eout[t].kind = "error"
              \/ eout[t] = Returned(Null)
              \/ eout[t] = Returned(ValidResult(t))

\* A call that used all 18 requests: the sixth request of attempt 1 was
\* answered with an invalid object, attempts 2 and 3 failed six times each.
C35_Witness ==
    /\ epc[0] = "settled"
    /\ attempts[0] = maxAttempts
    /\ backendCalls[0] = maxAttempts * (MAX_RETRIES + 1)
    /\ seen[0] = {"throw", "invalid"}
    /\ eout[0] = Thrown("HttpError")

\* C37: in every state reached by extractInfo calls, clearGenerationCache
\* calls and crashes, a cached response prompt_response_<i>_<backend>.json
\* exists only if the prompt file prompt_<i>.json exists.
C37_ResponseImpliesPrompt ==
    \A i \in TaskIds : \A m \in Models :
        responseFile[promptResponseFileName(i, m)] # NoFile => i \in promptFiles

\* Responses of both backends are cached for chunk 0, next to its prompt
\* file, while a call for chunk 1 is open: chunk 1 has its prompt file and
\* no response yet.
C37_Witness ==
    /\ responseFile[<<0, "openai">>] # NoFile
    /\ responseFile[<<0, "claude">>] # NoFile
    /\ 0 \in promptFiles
    /\ 1 \in promptFiles
    /\ responseFile[<<1, "openai">>] = NoFile
    /\ responseFile[<<1, "claude">>] = NoFile
    /\ epc[1] = "awaiting"

\* C38: chunkText partitions the threads: every thread is in exactly one
\* chunk, once; no chunk is empty; and every chunk that is not a single
\* thread above the budget has a length of at most the budget.
C38_ChunksPartitionTheThreads ==
    fnPc = "returned" =>
        /\ \A p \in 1 .. Len(fnArg.lengths) :
              /\ \E c \in 1 .. Len(fnRet.chunks) : p \in ChunkPosts(fnRet.chunks, c)
              /\ \A c, e \in 1 .. Len(fnRet.chunks) :
                    (p \in ChunkPosts(fnRet.chunks, c) /\ p \in ChunkPosts(fnRet.chunks, e))
                        => c = e
              /\ \A c \in 1 .. Len(fnRet.chunks) : Count(fnRet.chunks[c], p) <= 1
        /\ \A c \in 1 .. Len(fnRet.chunks) :
              /\ fnRet.chunks[c] # <<>>
              /\ textLength(fnArg.lengths, fnRet.chunks[c]) > 0
              /\ ChunkPosts(fnRet.chunks, c) \subseteq 1 .. Len(fnArg.lengths)
              /\ \/ /\ Len(fnRet.chunks[c]) = 1
                    /\ fnArg.lengths[fnRet.chunks[c][1]] > CHUNK_SIZE
                 \/ textLength(fnArg.lengths, fnRet.chunks[c]) <= CHUNK_SIZE

\* Three threads of half the budget, a third of it and half of it again:
\* the first two fill a chunk, the third would overflow it and opens the
\* next one.
C38_Witness ==
    /\ fnPc = "returned"
    /\ fnArg.lengths = <<CHUNK_SIZE \div 2, CHUNK_SIZE \div 3, CHUNK_SIZE \div 2>>
    /\ fnRet.chunks = <<(<<1, 2>>), <<3>>>>

\* C36: extractInfo of the Ollama variant makes at most 3 validation
\* attempts and then returns a valid result or throws, whatever the server
\* answers, also when an answer parses to a falsy JSON value.
C36_OllamaAtMostThreeAttempts ==
    /\ fnRet.attempts <= maxAttempts
    /\ (fnPc = "returned" /\ fnRet.out.kind = "value") =>
          ollamaValidateJson(fnRet.out.val)

\* C39: LlamaService runs at most one completion at a time and serves the
\* queue first in, first out: no two getCompletionResponse executions
\* overlap, and a request queued earlier is started before one queued later.
C39_OneCompletionInQueueOrder ==
    /\ Cardinality(fnRet.running) <= 1
    /\ \A k \in 1 .. Len(fnRet.started) : fnRet.started[k] = k
    /\ \A k \in 1 .. Len(fnRet.messageQueue) :
          fnRet.messageQueue[k].id = Len(fnRet.started) + k

\* The second request is executing after the first was settled, and the
\* third waits in the queue.
C39_Witness ==
    /\ fnRet.settled[1] = 1
    /\ \E message \in fnRet.running : message.id = 2
    /\ Len(fnRet.messageQueue) = 1
    /\ fnRet.messageQueue[1].id = 3
    /\ fnRet.isProcessing

\* C40: once the model is initialized every queued request, also one queued
\* before the initialization ended or while another was processed, is in
\* the end settled, and exactly once; a request that fails does not stop
\* the requests behind it.
C40_EveryRequestSettledOnce ==
    /\ [](\A id \in Requests : fnRet.settled[id] <= 1)
    /\ \A id \in Requests :
          (fnRet.modelInitialized /\ id <= fnRet.queued) ~> (fnRet.settled[id] = 1)

\* Three requests are settled once each: two were queued before the
\* initialization ended, the first was rejected and the ones behind it
\* were resolved.
C40_Witness ==
    /\ fnRet.early = 2
    /\ fnRet.outcome[1] = "rejected"
    /\ fnRet.outcome[2] = "resolved"
    /\ fnRet.outcome[3] = "resolved"
    /\ \A id \in Requests : fnRet.settled[id] = 1
    /\ ~fnRet.isProcessing

====
